---- MODULE Spec2Model ----
(***************************************************************************)
(* Model of the typing engine of key-star (the App component): the         *)
(* keystroke handler, the floor generators, the run controller and the     *)
(* statistics folded into the run at each floor completion.                *)
(*                                                                         *)
(* One browser event handler runs to completion before the next event is   *)
(* delivered, and the state setters it calls are applied together when it  *)
(* returns: every action below is one whole handler.  Inside a handler the *)
(* closure reads the values of the render that created it (the unprimed    *)
(* variables); the last setter call for a state variable wins.             *)
(*                                                                         *)
(* Texts and typed strings are sequences of one-character strings; a key   *)
(* event's key name is such a sequence as well, so that its length and its *)
(* concatenation to the typed text are those of the program.               *)
(***************************************************************************)
EXTENDS Integers, Sequences, FiniteSets, TLC

VARIABLES
    customModes,          \* useState<TypingMode[]>
    currentMode,          \* useState<TypingMode>
    currentRun,           \* useState<Run | null>
    currentFloor,         \* useState<Floor | null>
    currentCharIndex,     \* useState(0)
    hasError,             \* useState(false)
    typedCharacters,      \* useState<string>('')
    firstErrorPosition,   \* useState<number | null>
    now,                  \* the wall clock read by new Date() / Date.now()
    saveRequests,         \* the runs posted to the session store so far
    typing_sessions,      \* the rows of the table typing_sessions of the store
    response,             \* the last response of POST /api/typing-sessions
    session,              \* the state of the session-based App and its requests in flight
    modeEdits,            \* how many modes have been created, edited or deleted
    lastEvent,            \* the event handled by the last step and what it signalled
    script,               \* the keys a scripted user is going to press
    scriptPos             \* how many keys of the script have been pressed

vars == << customModes, currentMode, currentRun, currentFloor, currentCharIndex,
           hasError, typedCharacters, firstErrorPosition, now, saveRequests,
           typing_sessions, response, session, modeEdits, lastEvent, script,
           scriptPos >>

\* the state of the engine proper
engine == << customModes, currentMode, currentRun, currentFloor, currentCharIndex,
             hasError, typedCharacters, firstErrorPosition >>

\* the state of the session store
store == << typing_sessions, response >>

----------------------------------------------------------------------------
(* Bounds of the model *)

\* the clock advances up to MaxTime ticks
MaxTime == 1
\* at most MaxRunKeystrokes counted keystrokes (correct + incorrect) in one run
MaxRunKeystrokes == 5
\* typedCharacters is at most MaxTyped characters long
MaxTyped == 4
\* a run records at most MaxFloors completed floors
MaxFloors == 2

\* one tick of the model clock, in milliseconds
MsPerTick == 60 * 1000

----------------------------------------------------------------------------
(* null / undefined *)

\* no request has been answered yet
NoResponse == [status |-> 0]

Null == [null |-> TRUE]
\* null of firstErrorPosition, undefined of a Date or of sentenceList
NoPos == -1
NoTime == -1
NoList == << >>

----------------------------------------------------------------------------
(* Enumerations *)

FloorGenerationType ==
    [SEQUENTIAL_SENTENCES |-> "sequential",
     RANDOM_WORDS |-> "random_words",
     RANDOM_SENTENCES |-> "random_sentences"]

ErrorHandlingMode == [FORGIVING |-> "forgiving", PERFECTIONIST |-> "perfectionist"]

RunType == [TIME_BASED |-> "time", FLOOR_COUNT |-> "floors", ENDLESS |-> "endless"]

----------------------------------------------------------------------------
(* Texts.  The sentence collection of the program is fifteen English       *)
(* sentences; the model keeps the collection but shortens it to two texts  *)
(* over the alphabet of the keys below.                                    *)

CAT == << "c", "a", "t" >>
AT == << "a", "t" >>

DEFAULT_SENTENCES == << CAT, AT >>

\* the printable keys a user presses, and two named keys
PrintableKeys == { <<"c">>, <<"a">>, <<"t">>, <<"x">> }
Backspace == << "B", "a", "c", "k", "s", "p", "a", "c", "e" >>
Shift == << "S", "h", "i", "f", "t" >>
Keys == PrintableKeys \cup { Backspace, Shift }

----------------------------------------------------------------------------
(* Modes *)

DefaultRunTarget == 10

DEFAULT_MODES ==
    << [id |-> << "forgiving-default" >>, name |-> << "Forgiving Mode" >>,
        settings |-> [errorHandling |-> ErrorHandlingMode.FORGIVING,
                      runType |-> RunType.FLOOR_COUNT,
                      runTarget |-> DefaultRunTarget,
                      floorGeneration |-> [type |-> FloorGenerationType.RANDOM_SENTENCES,
                                           sentenceList |-> NoList]],
        isDefault |-> TRUE],
       [id |-> << "perfectionist-default" >>, name |-> << "Perfectionist Mode" >>,
        settings |-> [errorHandling |-> ErrorHandlingMode.PERFECTIONIST,
                      runType |-> RunType.FLOOR_COUNT,
                      runTarget |-> DefaultRunTarget,
                      floorGeneration |-> [type |-> FloorGenerationType.RANDOM_SENTENCES,
                                           sentenceList |-> NoList]],
        isDefault |-> TRUE] >>

\* The custom modes localStorage holds when the component mounts.  Each
\* presents CAT then AT in order; between them they cover both error
\* handlings and the three run types, floor-count runs with targets 1 and 2.
\* An id or a name is a sequence, so that generated ones can be told apart.
StoredPolicies ==
    << [errorHandling |-> ErrorHandlingMode.FORGIVING,
        runType |-> RunType.FLOOR_COUNT, runTarget |-> 1],
       [errorHandling |-> ErrorHandlingMode.FORGIVING,
        runType |-> RunType.FLOOR_COUNT, runTarget |-> 2],
       [errorHandling |-> ErrorHandlingMode.PERFECTIONIST,
        runType |-> RunType.FLOOR_COUNT, runTarget |-> 2],
       [errorHandling |-> ErrorHandlingMode.FORGIVING,
        runType |-> RunType.TIME_BASED, runTarget |-> 1],
       [errorHandling |-> ErrorHandlingMode.FORGIVING,
        runType |-> RunType.ENDLESS, runTarget |-> DefaultRunTarget] >>

StoredMode(i, policy) ==
    [id |-> << "custom", i >>,
     name |-> << "Custom", i >>,
     settings |-> [errorHandling |-> policy.errorHandling,
                   runType |-> policy.runType,
                   runTarget |-> policy.runTarget,
                   floorGeneration |-> [type |-> FloorGenerationType.SEQUENTIAL_SENTENCES,
                                        sentenceList |-> << CAT, AT >>]],
     isDefault |-> FALSE]

StoredCustomModes ==
    [i \in 1..Len(StoredPolicies) |-> StoredMode(i, StoredPolicies[i])]

\* const allModes = [...DEFAULT_MODES, ...customModes]
allModes == DEFAULT_MODES \o customModes

----------------------------------------------------------------------------
(* Exact arithmetic for the statistics: a number is a fraction num/den in  *)
(* lowest terms, den > 0.                                                  *)

RECURSIVE GCD(_, _)
GCD(a, b) == IF b = 0 THEN a ELSE GCD(b, a % b)

Frac(n, d) ==
    LET g == GCD(n, d) IN
    IF n = 0 THEN [num |-> 0, den |-> 1] ELSE [num |-> n \div g, den |-> d \div g]

Zero == [num |-> 0, den |-> 1]

FracAdd(x, y) == Frac(x.num * y.den + y.num * x.den, x.den * y.den)

FracDivInt(x, n) == Frac(x.num, x.den * n)

----------------------------------------------------------------------------
(* Floor generation *)

NewFloor(text) ==
    [text |-> text,
     startTime |-> NoTime,
     endTime |-> NoTime,
     typedText |-> << >>,
     correctCharacters |-> 0,
     incorrectCharacters |-> 0,
     accuracy |-> Zero,
     wpm |-> Zero,
     completed |-> FALSE]

\* const sentences = settings.sentenceList || DEFAULT_SENTENCES
SentencesOf(settings) ==
    IF settings.sentenceList = NoList THEN DEFAULT_SENTENCES ELSE settings.sentenceList

\* a mutation: the floor number itself is taken as the index
SequentialGenerateFloorFromZero(floorNumber, settings) ==
    LET sentences == SentencesOf(settings)
        sentenceIndex == floorNumber % Len(sentences)
    IN  NewFloor(sentences[sentenceIndex + 1])

\* SequentialSentencesGenerator.generateFloor
SequentialGenerateFloor(floorNumber, settings) ==
    LET sentences == SentencesOf(settings)
        sentenceIndex == (floorNumber - 1) % Len(sentences)
    IN  NewFloor(sentences[sentenceIndex + 1])

\* RandomSentencesGenerator.generateFloor; rnd is the value of
\* Math.floor(Math.random() * sentences.length)
RandomSentencesGenerateFloor(floorNumber, settings, rnd) ==
    LET sentences == SentencesOf(settings)
    IN  NewFloor(sentences[(rnd % Len(sentences)) + 1])

\* The word list of the program holds words of 3, 4, 5, 6, 7 and 9 letters;
\* the model keeps a list with words of 3 and 2 letters.
COMMON_WORDS == << CAT, AT >>

\* a mutation: the filter ignores the upper bound
FilteredWordsNoMax(settings) ==
    LET InRange(word) == Len(word) >= settings.wordLength.min
    IN  SelectSeq(COMMON_WORDS, InRange)

\* COMMON_WORDS.filter(word => word.length >= minLength && word.length <= maxLength)
FilteredWords(settings) ==
    LET InRange(word) == /\ Len(word) >= settings.wordLength.min
                         /\ Len(word) <= settings.wordLength.max
    IN  SelectSeq(COMMON_WORDS, InRange)

\* words.join(' '): an undefined element is joined as the empty string
RECURSIVE Join(_)
Join(words) ==
    IF words = << >> THEN << >>
    ELSE IF Len(words) = 1 THEN Head(words)
    ELSE Head(words) \o << " " >> \o Join(Tail(words))

\* Math.floor(Math.random() * 1000).toString(): the decimal digits of n
Digits == << "0", "1", "2", "3", "4", "5", "6", "7", "8", "9" >>

RECURSIVE toString(_)
toString(n) ==
    IF n < 10 THEN << Digits[n + 1] >>
    ELSE toString(n \div 10) \o << Digits[(n % 10) + 1] >>

punctuation == << ".", ",", "!", "?", ";", ":" >>

\* RandomWordsGenerator.generateFloor; for the i-th word rnd[i].word is the
\* value of Math.floor(Math.random() * filteredWords.length) (indexing the
\* empty list yields undefined), rnd[i].isNumber tells whether
\* Math.random() < 0.1 and rnd[i].number is Math.floor(Math.random() * 1000),
\* rnd[i].isMarked tells whether Math.random() < 0.15 and rnd[i].mark is
\* Math.floor(Math.random() * punctuation.length).  The settings of the
\* model have a word count and length bounds other than 0, which the
\* defaults of the generator leave as they are.
RandomWordsGenerateFloor(floorNumber, settings, rnd) ==
    LET filteredWords == FilteredWords(settings)
        drawn(i) == IF rnd[i].word < Len(filteredWords)
                    THEN filteredWords[rnd[i].word + 1]
                    ELSE << >>
        word(i) == IF settings.includeNumbers /\ rnd[i].isNumber
                   THEN toString(rnd[i].number)
                   ELSE drawn(i)
        marked(i) == IF settings.includePunctuation /\ rnd[i].isMarked
                     THEN word(i) \o << punctuation[rnd[i].mark + 1] >>
                     ELSE word(i)
        words == [i \in 1..settings.wordCount |-> marked(i)]
    IN  NewFloor(Join(words))

\* createFloorGenerator(type).generateFloor(floorNumber, settings)
GenerateFloor(floorNumber, settings, rnd) ==
    IF settings.type = FloorGenerationType.SEQUENTIAL_SENTENCES
    THEN SequentialGenerateFloor(floorNumber, settings)
    ELSE IF settings.type = FloorGenerationType.RANDOM_WORDS
    THEN RandomWordsGenerateFloor(floorNumber, settings, rnd)
    ELSE RandomSentencesGenerateFloor(floorNumber, settings, rnd)

\* the values Math.floor(Math.random() * 1000) takes in the model
NumberDraws == { 0, 42, 999 }

\* the random values one word of the random-words generator draws: an index
\* into the filtered list (0 when the list is empty), and the values of the
\* draws for a number and for a punctuation mark, which are made only when
\* the setting is on
WordDraws(settings) ==
    LET n == Len(FilteredWords(settings))
        numbers == { [isNumber |-> FALSE, number |-> 0] } \cup
                   (IF settings.includeNumbers
                    THEN { [isNumber |-> TRUE, number |-> k] : k \in NumberDraws }
                    ELSE { })
        marks == { [isMarked |-> FALSE, mark |-> 0] } \cup
                 (IF settings.includePunctuation
                  THEN { [isMarked |-> TRUE, mark |-> k] : k \in 0..(Len(punctuation) - 1) }
                  ELSE { })
    IN  { [word |-> w, isNumber |-> nu.isNumber, number |-> nu.number,
           isMarked |-> ma.isMarked, mark |-> ma.mark] :
             w \in 0..(IF n = 0 THEN 0 ELSE n - 1), nu \in numbers, ma \in marks }

\* the values the random draws of a generator of the given settings can
\* take: one index for a random sentence, the draws of each word for random
\* words; the sequential generator draws nothing
RandomDraws(settings) ==
    IF settings.type = FloorGenerationType.SEQUENTIAL_SENTENCES THEN { 0 }
    ELSE IF settings.type = FloorGenerationType.RANDOM_WORDS
    THEN [1..settings.wordCount -> WordDraws(settings)]
    ELSE 0..(Len(SentencesOf(settings)) - 1)

----------------------------------------------------------------------------
(* Run controller *)

\* a mutation: a floor-count run continues while floorsCompleted <= runTarget
shouldContinueRunInclusive(run, t) ==
    CASE run.runType = RunType.TIME_BASED ->
            (t - run.startTime) * MsPerTick < run.runTarget * 1000 * 60
      [] run.runType = RunType.FLOOR_COUNT ->
            run.floorsCompleted <= run.runTarget
      [] run.runType = RunType.ENDLESS -> TRUE
      [] OTHER -> FALSE

\* a mutation: an endless run falls through to the default case
shouldContinueRunEndlessStops(run, t) ==
    CASE run.runType = RunType.TIME_BASED ->
            (t - run.startTime) * MsPerTick < run.runTarget * 1000 * 60
      [] run.runType = RunType.FLOOR_COUNT ->
            run.floorsCompleted < run.runTarget
      [] OTHER -> FALSE

\* a mutation: a time-based run continues while elapsed <= runTarget
shouldContinueRunTimeInclusive(run, t) ==
    CASE run.runType = RunType.TIME_BASED ->
            (t - run.startTime) * MsPerTick <= run.runTarget * 1000 * 60
      [] run.runType = RunType.FLOOR_COUNT ->
            run.floorsCompleted < run.runTarget
      [] run.runType = RunType.ENDLESS -> TRUE
      [] OTHER -> FALSE

\* shouldContinueRun(run), evaluated at clock value t
shouldContinueRun(run, t) ==
    CASE run.runType = RunType.TIME_BASED ->
            \* elapsed = (Date.now() - run.startTime) / (1000 * 60) < runTarget
            (t - run.startTime) * MsPerTick < run.runTarget * 1000 * 60
      [] run.runType = RunType.FLOOR_COUNT ->
            run.floorsCompleted < run.runTarget
      [] run.runType = RunType.ENDLESS -> TRUE
      [] OTHER -> FALSE

\* a mutation: the completed run is stamped but stays active
CompletedRunStillActive(run, t) == [run EXCEPT !.endTime = t]

\* completedRun of completeCurrentRun
CompletedRun(run, t) == [run EXCEPT !.endTime = t, !.isActive = FALSE]

\* text.split(' ').length
RECURSIVE SplitCount(_)
SplitCount(text) ==
    IF text = << >> THEN 1
    ELSE (IF Head(text) = " " THEN 1 ELSE 0) + SplitCount(Tail(text))

\* a mutation: accuracy is the share of the text typed correctly
CompletedFloorAccuracyOfText(floor, typed, t) ==
    LET ticks == t - floor.startTime
        wordCount == SplitCount(floor.text)
    IN  [floor EXCEPT
            !.endTime = t,
            !.completed = TRUE,
            !.typedText = typed,
            !.wpm = IF ticks > 0 THEN Frac(wordCount * 60 * 1000, ticks * MsPerTick)
                    ELSE Zero,
            !.accuracy = Frac(floor.correctCharacters * 100, Len(floor.text))]

\* completedFloor of completeCurrentFloor: the floor of the closure, stamped
\* and given its statistics
CompletedFloor(floor, typed, t) ==
    LET ticks == t - floor.startTime
        wordCount == SplitCount(floor.text)
        counted == floor.correctCharacters + floor.incorrectCharacters
    IN  [floor EXCEPT
            !.endTime = t,
            !.completed = TRUE,
            !.typedText = typed,
            \* duration = ms / 1000 ; wpm = wordCount / (duration / 60)
            !.wpm = IF ticks > 0 THEN Frac(wordCount * 60 * 1000, ticks * MsPerTick)
                    ELSE Zero,
            !.accuracy = IF counted > 0 THEN Frac(floor.correctCharacters * 100, counted)
                         ELSE Zero]

RECURSIVE SumWpm(_)
SumWpm(floors) ==
    IF floors = << >> THEN Zero ELSE FracAdd(Head(floors).wpm, SumWpm(Tail(floors)))

\* a mutation: the average is weighted by the length of each floor's text
RECURSIVE SumWpmByLength(_)
SumWpmByLength(floors) ==
    IF floors = << >> THEN Zero
    ELSE FracAdd(Frac(Head(floors).wpm.num * Len(Head(floors).text),
                      Head(floors).wpm.den),
                 SumWpmByLength(Tail(floors)))

UpdatedRunWpmByLength(run, completedFloor) ==
    LET floors == Append(run.floors, completedFloor)
        correct == run.totalCorrectCharacters + completedFloor.correctCharacters
        incorrect == run.totalIncorrectCharacters + completedFloor.incorrectCharacters
        chars == run.totalCharacters + Len(completedFloor.text)
    IN  [run EXCEPT
            !.floors = floors,
            !.floorsCompleted = run.floorsCompleted + 1,
            !.totalCharacters = chars,
            !.totalCorrectCharacters = correct,
            !.totalIncorrectCharacters = incorrect,
            !.averageAccuracy = IF correct + incorrect > 0
                                THEN Frac(correct * 100, correct + incorrect)
                                ELSE Zero,
            !.averageWPM = FracDivInt(SumWpmByLength(floors), chars)]

\* a mutation: the floor is appended but floorsCompleted is not advanced
UpdatedRunNoCount(run, completedFloor) ==
    LET floors == Append(run.floors, completedFloor)
        correct == run.totalCorrectCharacters + completedFloor.correctCharacters
        incorrect == run.totalIncorrectCharacters + completedFloor.incorrectCharacters
    IN  [run EXCEPT
            !.floors = floors,
            !.totalCharacters = run.totalCharacters + Len(completedFloor.text),
            !.totalCorrectCharacters = correct,
            !.totalIncorrectCharacters = incorrect,
            !.averageAccuracy = IF correct + incorrect > 0
                                THEN Frac(correct * 100, correct + incorrect)
                                ELSE Zero,
            !.averageWPM = FracDivInt(SumWpm(floors), Len(floors))]

\* a mutation: the completed floor is put in front of the earlier floors
UpdatedRunPrepends(run, completedFloor) ==
    LET floors == << completedFloor >> \o run.floors
        correct == run.totalCorrectCharacters + completedFloor.correctCharacters
        incorrect == run.totalIncorrectCharacters + completedFloor.incorrectCharacters
    IN  [run EXCEPT
            !.floors = floors,
            !.floorsCompleted = run.floorsCompleted + 1,
            !.totalCharacters = run.totalCharacters + Len(completedFloor.text),
            !.totalCorrectCharacters = correct,
            !.totalIncorrectCharacters = incorrect,
            !.averageAccuracy = IF correct + incorrect > 0
                                THEN Frac(correct * 100, correct + incorrect)
                                ELSE Zero,
            !.averageWPM = FracDivInt(SumWpm(floors), Len(floors))]

\* a mutation: totalCharacters adds the keystrokes counted on the floor
UpdatedRunTotalOfKeystrokes(run, completedFloor) ==
    LET floors == Append(run.floors, completedFloor)
        correct == run.totalCorrectCharacters + completedFloor.correctCharacters
        incorrect == run.totalIncorrectCharacters + completedFloor.incorrectCharacters
    IN  [run EXCEPT
            !.floors = floors,
            !.floorsCompleted = run.floorsCompleted + 1,
            !.totalCharacters = run.totalCharacters + completedFloor.correctCharacters
                                   + completedFloor.incorrectCharacters,
            !.totalCorrectCharacters = correct,
            !.totalIncorrectCharacters = incorrect,
            !.averageAccuracy = IF correct + incorrect > 0
                                THEN Frac(correct * 100, correct + incorrect)
                                ELSE Zero,
            !.averageWPM = FracDivInt(SumWpm(floors), Len(floors))]

\* updatedRun of completeCurrentFloor
UpdatedRun(run, completedFloor) ==
    LET floors == Append(run.floors, completedFloor)
        correct == run.totalCorrectCharacters + completedFloor.correctCharacters
        incorrect == run.totalIncorrectCharacters + completedFloor.incorrectCharacters
    IN  [run EXCEPT
            !.floors = floors,
            !.floorsCompleted = run.floorsCompleted + 1,
            !.totalCharacters = run.totalCharacters + Len(completedFloor.text),
            !.totalCorrectCharacters = correct,
            !.totalIncorrectCharacters = incorrect,
            !.averageAccuracy = IF correct + incorrect > 0
                                THEN Frac(correct * 100, correct + incorrect)
                                ELSE Zero,
            !.averageWPM = FracDivInt(SumWpm(floors), Len(floors))]

\* a mutation: every run is a floor-count run
NewRunOfFloorCount(mode, t) ==
    [modeId |-> mode.id,
     startTime |-> t,
     endTime |-> NoTime,
     runType |-> RunType.FLOOR_COUNT,
     runTarget |-> mode.settings.runTarget,
     floorsCompleted |-> 0,
     totalCharacters |-> 0,
     totalCorrectCharacters |-> 0,
     totalIncorrectCharacters |-> 0,
     averageAccuracy |-> Zero,
     averageWPM |-> Zero,
     isActive |-> TRUE,
     floors |-> << >>]

\* newRun of startNewRun
NewRun(mode, t) ==
    [modeId |-> mode.id,
     startTime |-> t,
     endTime |-> NoTime,
     runType |-> mode.settings.runType,
     runTarget |-> mode.settings.runTarget,
     floorsCompleted |-> 0,
     totalCharacters |-> 0,
     totalCorrectCharacters |-> 0,
     totalIncorrectCharacters |-> 0,
     averageAccuracy |-> Zero,
     averageWPM |-> Zero,
     isActive |-> TRUE,
     floors |-> << >>]

----------------------------------------------------------------------------
(* Events.  lastEvent records which handler ran in the last step, the key  *)
(* of a key event, and whether the handler called completeCurrentFloor and *)
(* completeCurrentRun.                                                     *)

Event(kind, key, floorComplete, runComplete) ==
    [kind |-> kind, key |-> key, floorComplete |-> floorComplete,
     runComplete |-> runComplete]

\* the state the setters of one handler leave behind
Commit(run, floor, idx, err, typed, fep, ev) ==
    /\ currentRun' = run
    /\ currentFloor' = floor
    /\ currentCharIndex' = idx
    /\ hasError' = err
    /\ typedCharacters' = typed
    /\ firstErrorPosition' = fep
    /\ lastEvent' = ev

\* text[i] as a key name; indexing past the end yields undefined, which no
\* key name equals
Undefined == << "undefined" >>
CharAt(text, i) == IF i >= 0 /\ i < Len(text) THEN << text[i + 1] >> ELSE Undefined

\* str.slice(0, -1)
DropLast(str) == SubSeq(str, 1, Len(str) - 1)

----------------------------------------------------------------------------
(* startNewRun: the run and floor 1 are set by the same handler *)

\* a mutation: the run is set, the first floor is left for a later step
startNewRunWithoutFloor(key, rnd) ==
    Commit(NewRun(currentMode, now), Null, 0, FALSE, << >>, NoPos,
           Event("key", key, FALSE, FALSE))

\* a mutation: the key that starts the run is also typed on floor 1
startNewRunTypesKey(key, rnd) ==
    LET newRun == NewRun(currentMode, now)
        newFloor == [GenerateFloor(1, currentMode.settings.floorGeneration, rnd)
                        EXCEPT !.startTime = now]
        matches == key = CharAt(newFloor.text, 0)
    IN  Commit(newRun,
               IF matches THEN [newFloor EXCEPT !.correctCharacters = 1]
               ELSE [newFloor EXCEPT !.incorrectCharacters = 1],
               IF matches THEN 1 ELSE 0, ~matches, << >>, NoPos,
               Event("key", key, FALSE, FALSE))

startNewRun(key, rnd) ==
    LET newRun == NewRun(currentMode, now)
        newFloor == [GenerateFloor(1, currentMode.settings.floorGeneration, rnd)
                        EXCEPT !.startTime = now]
    IN  Commit(newRun, newFloor, 0, FALSE, << >>, NoPos,
               Event("key", key, FALSE, FALSE))

\* a mutation: on continuation the typing state queued by the caller stays
completeCurrentFloorKeepsTyping(key, rnd, idx, err, typed, fep) ==
    LET completedFloor == CompletedFloor(currentFloor, typedCharacters, now)
        updatedRun == UpdatedRun(currentRun, completedFloor)
    IN  IF shouldContinueRun(updatedRun, now)
        THEN LET nextFloorNumber == updatedRun.floorsCompleted + 1
                 nextFloor == [GenerateFloor(nextFloorNumber,
                                             currentMode.settings.floorGeneration, rnd)
                                  EXCEPT !.startTime = now]
             IN  Commit(updatedRun, nextFloor, idx, err, typed, fep,
                        Event("key", key, TRUE, FALSE))
        ELSE Commit(CompletedRun(updatedRun, now), Null, idx, err, typed, fep,
                    Event("key", key, TRUE, TRUE))

(* completeCurrentFloor, called by handleKeyPress after it has queued       *)
(* setCurrentFloor(updatedFloor).  It reads currentFloor, currentRun and    *)
(* typedCharacters of the closure, not the values queued by the caller.     *)
(* idx, err, typed, fep are the values the caller has queued so far; they   *)
(* stay when the run ends, and are reset when the run continues.            *)
completeCurrentFloor(key, rnd, idx, err, typed, fep) ==
    LET completedFloor == CompletedFloor(currentFloor, typedCharacters, now)
        updatedRun == UpdatedRun(currentRun, completedFloor)
    IN  IF shouldContinueRun(updatedRun, now)
        THEN LET nextFloorNumber == updatedRun.floorsCompleted + 1
                 nextFloor == [GenerateFloor(nextFloorNumber,
                                             currentMode.settings.floorGeneration, rnd)
                                  EXCEPT !.startTime = now]
             IN  Commit(updatedRun, nextFloor, 0, FALSE, << >>, NoPos,
                        Event("key", key, TRUE, FALSE))
        ELSE \* setCurrentRun(updatedRun); completeCurrentRun(updatedRun)
             Commit(CompletedRun(updatedRun, now), Null, idx, err, typed, fep,
                    Event("key", key, TRUE, TRUE))

----------------------------------------------------------------------------
(* handleKeyPress *)

IsPerfectionist == currentMode.settings.errorHandling = ErrorHandlingMode.PERFECTIONIST
IsForgiving == currentMode.settings.errorHandling = ErrorHandlingMode.FORGIVING

\* a mutation: no key is filtered out
IgnoredKeyNever(key) == FALSE

\* if (typedChar.length > 1 && typedChar !== ' ') return
IgnoredKey(key) == Len(key) > 1 /\ key # << " " >>

\* the key passes the early returns and is processed against the floor
IsTypingInput(key) ==
    /\ currentRun # Null
    /\ currentFloor # Null
    /\ ~(key = Backspace /\ IsPerfectionist)
    /\ ~IgnoredKey(key)

\* a mutation: a key on a completed run stamps its endTime again
UnchangedStampsEndTime(key) ==
    Commit(IF currentRun # Null /\ ~currentRun.isActive
           THEN [currentRun EXCEPT !.endTime = now]
           ELSE currentRun,
           currentFloor, currentCharIndex, hasError, typedCharacters,
           firstErrorPosition, Event("key", key, FALSE, FALSE))

\* a handler that changes nothing
Unchanged(key) ==
    Commit(currentRun, currentFloor, currentCharIndex, hasError, typedCharacters,
           firstErrorPosition, Event("key", key, FALSE, FALSE))

\* a mutation: the error is cleared only strictly before the error position
BackspaceBranchStrict(key) ==
    IF Len(typedCharacters) > 0
    THEN LET newTypedChars == DropLast(typedCharacters)
             clear == firstErrorPosition # NoPos
                         /\ Len(newTypedChars) < firstErrorPosition
         IN  Commit(currentRun, currentFloor, Len(newTypedChars),
                    IF clear THEN FALSE ELSE hasError,
                    newTypedChars,
                    IF clear THEN NoPos ELSE firstErrorPosition,
                    Event("key", key, FALSE, FALSE))
    ELSE Unchanged(key)

\* a mutation: deleting back never clears the error
BackspaceBranchKeepsError(key) ==
    IF Len(typedCharacters) > 0
    THEN LET newTypedChars == DropLast(typedCharacters)
         IN  Commit(currentRun, currentFloor, Len(newTypedChars), hasError,
                    newTypedChars, firstErrorPosition,
                    Event("key", key, FALSE, FALSE))
    ELSE Unchanged(key)

\* a mutation: Backspace deletes nothing
BackspaceBranchIgnored(key) == Unchanged(key)

\* Backspace in perfectionist mode
BackspaceBranch(key) ==
    IF Len(typedCharacters) > 0
    THEN LET newTypedChars == DropLast(typedCharacters)
             clear == firstErrorPosition # NoPos
                         /\ Len(newTypedChars) <= firstErrorPosition
         IN  Commit(currentRun, currentFloor, Len(newTypedChars),
                    IF clear THEN FALSE ELSE hasError,
                    newTypedChars,
                    IF clear THEN NoPos ELSE firstErrorPosition,
                    Event("key", key, FALSE, FALSE))
    ELSE Unchanged(key)

\* a mutation: a wrong key is counted and skipped over
ForgivingWrongKeySkips(key) ==
    Commit(currentRun,
           [currentFloor EXCEPT !.incorrectCharacters = @ + 1],
           currentCharIndex + 1, TRUE, typedCharacters, firstErrorPosition,
           Event("key", key, FALSE, FALSE))

\* a mutation: a wrong key is counted and moves the position back
ForgivingWrongKeyStepsBack(key) ==
    Commit(currentRun,
           [currentFloor EXCEPT !.incorrectCharacters = @ + 1],
           IF currentCharIndex > 0 THEN currentCharIndex - 1 ELSE 0,
           TRUE, typedCharacters, firstErrorPosition,
           Event("key", key, FALSE, FALSE))

\* forgiving mode, "Wrong key pressed"
ForgivingWrongKey(key) ==
    Commit(currentRun,
           [currentFloor EXCEPT !.incorrectCharacters = @ + 1],
           currentCharIndex, TRUE, typedCharacters, firstErrorPosition,
           Event("key", key, FALSE, FALSE))

ForgivingBranch(key, rnd) ==
    LET expectedChar == CharAt(currentFloor.text, currentCharIndex)
    IN  IF key = expectedChar
        THEN IF currentCharIndex = Len(currentFloor.text) - 1
             THEN \* setHasError(false); setCurrentFloor(updatedFloor);
                  \* completeCurrentFloor()
                  completeCurrentFloor(key, rnd, currentCharIndex, FALSE,
                                       typedCharacters, firstErrorPosition)
             ELSE Commit(currentRun,
                         [currentFloor EXCEPT !.correctCharacters = @ + 1],
                         currentCharIndex + 1, FALSE, typedCharacters,
                         firstErrorPosition, Event("key", key, FALSE, FALSE))
        ELSE ForgivingWrongKey(key)

\* a mutation: every wrong key records its own position as the error position
PerfectionistWrongKeyMovesError(key) ==
    LET newTypedChars == typedCharacters \o key
    IN  Commit(currentRun,
               [currentFloor EXCEPT !.incorrectCharacters = @ + 1],
               Len(newTypedChars),
               TRUE,
               newTypedChars,
               Len(typedCharacters),
               Event("key", key, FALSE, FALSE))

\* perfectionist mode, "Either we already had an error, or this is the first
\* wrong character"
PerfectionistWrongKey(key) ==
    LET newTypedChars == typedCharacters \o key
    IN  Commit(currentRun,
               [currentFloor EXCEPT !.incorrectCharacters = @ + 1],
               Len(newTypedChars),
               IF firstErrorPosition = NoPos THEN TRUE ELSE hasError,
               newTypedChars,
               IF firstErrorPosition = NoPos THEN Len(typedCharacters)
               ELSE firstErrorPosition,
               Event("key", key, FALSE, FALSE))

\* a mutation: the key is compared at the locked position but an active error
\* does not keep it from counting as correct
PerfectionistMatchesUnlocked(key) ==
    LET correctPosition == IF firstErrorPosition # NoPos THEN firstErrorPosition
                           ELSE Len(typedCharacters)
    IN  key = CharAt(currentFloor.text, correctPosition)

\* firstErrorPosition === null && typedChar === expectedChar
PerfectionistMatches(key) ==
    LET correctPosition == IF firstErrorPosition # NoPos THEN firstErrorPosition
                           ELSE Len(typedCharacters)
        expectedChar == CharAt(currentFloor.text, correctPosition)
    IN  firstErrorPosition = NoPos /\ key = expectedChar

\* a mutation: the key is compared with the text at the typed length whether
\* or not an error is active, and the floor is complete when as many
\* characters are typed as the text has
PerfectionistBranchByLength(key, rnd) ==
    LET newTypedChars == typedCharacters \o key
    IN  IF key = CharAt(currentFloor.text, Len(typedCharacters))
        THEN IF Len(newTypedChars) = Len(currentFloor.text)
             THEN completeCurrentFloor(key, rnd, Len(newTypedChars), hasError,
                                       newTypedChars, firstErrorPosition)
             ELSE Commit(currentRun,
                         [currentFloor EXCEPT !.correctCharacters = @ + 1],
                         Len(newTypedChars), hasError, newTypedChars,
                         firstErrorPosition, Event("key", key, FALSE, FALSE))
        ELSE PerfectionistWrongKey(key)

PerfectionistBranch(key, rnd) ==
    LET newTypedChars == typedCharacters \o key
    IN  IF PerfectionistMatches(key)
        THEN IF newTypedChars = currentFloor.text
             THEN \* setTypedCharacters(newTypedChars); setCurrentCharIndex(..);
                  \* setCurrentFloor(updatedFloor); completeCurrentFloor()
                  completeCurrentFloor(key, rnd, Len(newTypedChars), hasError,
                                       newTypedChars, firstErrorPosition)
             ELSE Commit(currentRun,
                         [currentFloor EXCEPT !.correctCharacters = @ + 1],
                         Len(newTypedChars), hasError, newTypedChars,
                         firstErrorPosition, Event("key", key, FALSE, FALSE))
        ELSE PerfectionistWrongKey(key)

\* the key makes the handler call completeCurrentFloor
CompletesFloor(key) ==
    /\ IsTypingInput(key)
    /\ IF IsForgiving
       THEN /\ key = CharAt(currentFloor.text, currentCharIndex)
            /\ currentCharIndex = Len(currentFloor.text) - 1
       ELSE /\ PerfectionistMatches(key)
            /\ typedCharacters \o key = currentFloor.text

\* the model's bounds on what the program leaves unbounded
WithinBounds(key) ==
    IsTypingInput(key) =>
        /\ currentRun.totalCorrectCharacters + currentRun.totalIncorrectCharacters
              + currentFloor.correctCharacters + currentFloor.incorrectCharacters
              < MaxRunKeystrokes
        /\ IsPerfectionist => Len(typedCharacters) < MaxTyped
        /\ currentRun.floorsCompleted < MaxFloors

\* handleKeyPress on any key
KeyHandler(key, rnd) ==
    /\ IF currentRun = Null THEN startNewRun(key, rnd)
       ELSE IF currentFloor = Null THEN Unchanged(key)
       ELSE IF key = Backspace /\ IsPerfectionist THEN BackspaceBranch(key)
       ELSE IF IgnoredKey(key) THEN Unchanged(key)
       ELSE IF IsForgiving THEN ForgivingBranch(key, rnd)
       ELSE PerfectionistBranch(key, rnd)
    /\ UNCHANGED << customModes, currentMode, now, saveRequests, store, session, modeEdits >>

\* handleKeyPress on the keys the model explores
handleKeyPress(key, rnd) ==
    /\ WithinBounds(key)
    /\ KeyHandler(key, rnd)

\* the values of rnd that make a difference to handleKeyPress(key, rnd): a
\* floor is generated only when the handler starts a run or completes a floor
DrawsFor(key) ==
    IF currentRun = Null \/ CompletesFloor(key)
    THEN RandomDraws(currentMode.settings.floorGeneration)
    ELSE { 0 }

----------------------------------------------------------------------------
(* Mode selection: both buttons replace the mode and discard the run *)

SelectMode(mode, kind) ==
    /\ currentMode' = mode
    /\ Commit(Null, Null, 0, FALSE, << >>, NoPos, Event(kind, << >>, FALSE, FALSE))
    /\ UNCHANGED << customModes, now, saveRequests, store, session, modeEdits >>

\* the "Use Mode" button of a mode card, disabled on the current mode
UseMode(i) ==
    /\ allModes[i].id # currentMode.id
    /\ SelectMode(allModes[i], "useMode")

\* the quick-switch menu shows allModes.slice(0, 5)
QuickModeSwitch(i) ==
    /\ i <= 5
    /\ SelectMode(allModes[i], "quickSwitch")

----------------------------------------------------------------------------
(* Mode management.  saveCustomModes writes the list to localStorage and to *)
(* customModes; an id is generated from the clock and a random number and   *)
(* is modelled by a number no earlier mode carries.                         *)

\* bound of the model: the number of create, edit, duplicate and delete
\* operations in one behaviour
MaxModeEdits == 1

\* `custom-${Date.now()}-${Math.random()...}`
FreshModeId == << "custom", Len(StoredPolicies) + modeEdits + 1 >>

\* a handler of the mode manager that leaves mode, run and typing state alone
KeepEngine(ev) ==
    /\ Commit(currentRun, currentFloor, currentCharIndex, hasError, typedCharacters,
              firstErrorPosition, ev)
    /\ UNCHANGED currentMode

createMode(name, settings, kind) ==
    LET newMode == [id |-> FreshModeId, name |-> name, settings |-> settings,
                    isDefault |-> FALSE]
    IN  /\ customModes' = Append(customModes, newMode)
        /\ KeepEngine(Event(kind, << >>, FALSE, FALSE))

\* a mutation: an edit of the mode in use is applied to currentMode as well
updateModeAndCurrent(modeId, updates) ==
    /\ customModes' = [i \in 1..Len(customModes) |->
                          IF customModes[i].id = modeId
                          THEN [customModes[i] EXCEPT !.name = updates.name,
                                                      !.settings = updates.settings]
                          ELSE customModes[i]]
    /\ currentMode' = IF currentMode.id = modeId
                      THEN [currentMode EXCEPT !.name = updates.name,
                                               !.settings = updates.settings]
                      ELSE currentMode
    /\ Commit(currentRun, currentFloor, currentCharIndex, hasError, typedCharacters,
              firstErrorPosition, Event("updateMode", << >>, FALSE, FALSE))

\* updates carries a name and settings, as the mode form passes them
updateMode(modeId, updates) ==
    /\ customModes' = [i \in 1..Len(customModes) |->
                          IF customModes[i].id = modeId
                          THEN [customModes[i] EXCEPT !.name = updates.name,
                                                      !.settings = updates.settings]
                          ELSE customModes[i]]
    /\ KeepEngine(Event("updateMode", << >>, FALSE, FALSE))

\* a mutation: the run and the floor are dropped, the typing state is left
deleteModeKeepsTyping(modeId) ==
    LET Kept(mode) == mode.id # modeId
    IN  /\ customModes' = SelectSeq(customModes, Kept)
        /\ IF currentMode.id = modeId
           THEN /\ currentMode' = DEFAULT_MODES[1]
                /\ Commit(Null, Null, currentCharIndex, hasError, typedCharacters,
                          firstErrorPosition,
                          Event("deleteMode", modeId, FALSE, FALSE))
           ELSE KeepEngine(Event("deleteMode", << >>, FALSE, FALSE))

\* the event of a deletion that resets the engine carries the id of the
\* deleted mode
deleteMode(modeId) ==
    LET Kept(mode) == mode.id # modeId
    IN  /\ customModes' = SelectSeq(customModes, Kept)
        /\ IF currentMode.id = modeId
           THEN /\ currentMode' = DEFAULT_MODES[1]
                /\ Commit(Null, Null, 0, FALSE, << >>, NoPos,
                          Event("deleteMode", modeId, FALSE, FALSE))
           ELSE KeepEngine(Event("deleteMode", << >>, FALSE, FALSE))

\* createMode(`${mode.name} (Copy)`, mode.settings)
duplicateMode(mode) ==
    createMode(mode.name \o << " (Copy)" >>, mode.settings, "duplicateMode")

\* settings the mode form builds: it sets the generation type and no sentence list
FormSettings ==
    { [errorHandling |-> ErrorHandlingMode.PERFECTIONIST,
       runType |-> RunType.FLOOR_COUNT, runTarget |-> 1,
       floorGeneration |-> [type |-> FloorGenerationType.SEQUENTIAL_SENTENCES,
                            sentenceList |-> NoList]],
      [errorHandling |-> ErrorHandlingMode.FORGIVING,
       runType |-> RunType.ENDLESS, runTarget |-> DefaultRunTarget,
       floorGeneration |-> [type |-> FloorGenerationType.RANDOM_SENTENCES,
                            sentenceList |-> NoList]] }

\* settings the mode form builds for a random-words mode: the word count and
\* the two length bounds of its number inputs (min <= max; no word of
\* COMMON_WORDS has length 8)
FormWordSettings ==
    { [errorHandling |-> ErrorHandlingMode.FORGIVING,
       runType |-> RunType.FLOOR_COUNT, runTarget |-> 1,
       floorGeneration |-> [type |-> FloorGenerationType.RANDOM_WORDS,
                            sentenceList |-> NoList,
                            wordCount |-> 5,
                            wordLength |-> [min |-> 8, max |-> 8],
                            includeNumbers |-> FALSE,
                            includePunctuation |-> FALSE]],
      [errorHandling |-> ErrorHandlingMode.FORGIVING,
       runType |-> RunType.FLOOR_COUNT, runTarget |-> 1,
       floorGeneration |-> [type |-> FloorGenerationType.RANDOM_WORDS,
                            sentenceList |-> NoList,
                            wordCount |-> 5,
                            wordLength |-> [min |-> 2, max |-> 3],
                            includeNumbers |-> FALSE,
                            includePunctuation |-> FALSE]] }

\* what the operations of the mode manager leave alone; max bounds their number
ModeEditWithin(max) ==
    /\ modeEdits < max
    /\ modeEdits' = modeEdits + 1
    /\ UNCHANGED << now, saveRequests, store, session, script, scriptPos >>

ModeEdit == ModeEditWithin(MaxModeEdits)

CreateMode ==
    /\ ModeEdit
    /\ \E settings \in FormSettings :
          createMode(<< "New", modeEdits >>, settings, "createMode")

UpdateMode ==
    /\ ModeEdit
    /\ \E i \in 1..Len(customModes) : \E settings \in FormSettings :
          updateMode(customModes[i].id,
                     [name |-> customModes[i].name, settings |-> settings])

DeleteMode ==
    /\ ModeEdit
    /\ \E i \in 1..Len(customModes) : deleteMode(customModes[i].id)

DuplicateMode ==
    /\ ModeEdit
    /\ \E i \in 1..Len(allModes) : duplicateMode(allModes[i])

----------------------------------------------------------------------------
(* The mode form.  A name typed into the form is a sequence of characters   *)
(* (the names of the built-in modes and the suffix of a copy are single     *)
(* elements); toLowerCase and trim act on it element by element.            *)

\* String.prototype.toLowerCase on the elements that occur in names
LowerCaseOf(ch) ==
    CASE ch = "A" -> "a"
      [] ch = "B" -> "b"
      [] ch = "Forgiving Mode" -> "forgiving mode"
      [] ch = "Perfectionist Mode" -> "perfectionist mode"
      [] ch = " (Copy)" -> " (copy)"
      [] OTHER -> ch

toLowerCase(name) == [i \in 1..Len(name) |-> LowerCaseOf(name[i])]

\* String.prototype.trim
RECURSIVE trimStart(_)
trimStart(name) ==
    IF name # << >> /\ Head(name) = " " THEN trimStart(Tail(name)) ELSE name

RECURSIVE trimEnd(_)
trimEnd(name) ==
    IF name # << >> /\ name[Len(name)] = " " THEN trimEnd(DropLast(name)) ELSE name

trim(name) == trimEnd(trimStart(name))

\* allModes.some(mode => mode.name.toLowerCase() === trimmedName.toLowerCase()
\*                       && mode.id !== editingMode?.id)
isDuplicate(trimmedName, editingMode) ==
    \E i \in 1..Len(allModes) :
        /\ toLowerCase(allModes[i].name) = toLowerCase(trimmedName)
        /\ (editingMode = Null \/ allModes[i].id # editingMode.id)

\* handleSubmit returns after an alert: nothing is stored
SubmitRejected ==
    /\ customModes' = customModes
    /\ KeepEngine(Event("submitRejected", << >>, FALSE, FALSE))

\* handleSubmit of the mode form; editingMode is Null while a mode is created
handleSubmit(isCreating, editingMode, formName, settings) ==
    LET trimmedName == trim(formName)
    IN  IF trimmedName = << >> THEN SubmitRejected
        ELSE IF isDuplicate(trimmedName, editingMode) THEN SubmitRejected
        ELSE IF isCreating THEN createMode(trimmedName, settings, "createMode")
        ELSE IF editingMode # Null
        THEN updateMode(editingMode.id, [name |-> trimmedName, settings |-> settings])
        ELSE SubmitRejected

--------------------------------------------------------------------------------
(* The session-based App: two fixed sentences typed in one session, whose
   statistics are posted to the session store when the last one is completed. *)

\* the keystrokes counted in one session of the model
MaxSessionKeystrokes == 6

sentences == << CAT, AT >>

STRICT == "strict"
PERMISSIVE == "permissive"

TYPING_MODES ==
    << [id |-> "strict", errorHandling |-> STRICT],
       [id |-> "permissive", errorHandling |-> PERMISSIVE] >>

\* the typing statistics before the first keystroke
InitialTypingStats ==
    [sessionStart |-> NoTime, sessionEnd |-> NoTime, currentTime |-> 0,
     correctCharacters |-> 0, incorrectCharacters |-> 0, totalKeystrokes |-> 0]

\* the component's state after construction, with the load of the mount effect
\* in flight; posts are the request bodies awaiting their response, loads the
\* number of GET requests awaiting theirs, errors the lines of console.error
InitialSession ==
    [currentSentenceIndex |-> 0, currentCharIndex |-> 0, hasError |-> FALSE,
     currentMode |-> TYPING_MODES[1], typedCharacters |-> << >>,
     historicalSessions |-> << >>, typingStats |-> InitialTypingStats,
     sessionActive |-> FALSE, posts |-> << >>, loads |-> 1, errors |-> << >>]

\* text.trim().split(/\s+/).filter(word => word.length > 0).length
countWords(text) ==
    Cardinality({ i \in 1..Len(text) :
                    /\ text[i] # " "
                    /\ (i = 1 \/ text[i - 1] = " ") })

RECURSIVE join(_)
\* sentences.join(' ')
join(list) ==
    IF list = << >> THEN << >>
    ELSE IF Len(list) = 1 THEN list[1]
    ELSE list[1] \o << " " >> \o join(Tail(list))

RECURSIVE totalCharacters(_)
\* sentences.reduce((sum, sentence) => sum + sentence.length, 0)
totalCharacters(list) ==
    IF list = << >> THEN 0 ELSE Len(list[1]) + totalCharacters(Tail(list))

\* the statistics startSession sets at the time t
startSession(t) ==
    [sessionStart |-> t, sessionEnd |-> NoTime, currentTime |-> t,
     correctCharacters |-> 0, incorrectCharacters |-> 0, totalKeystrokes |-> 0]

\* the statistics endSession sets: the typingStats of its closure, ended at t
finalStats(typingStats, t) ==
    [typingStats EXCEPT !.sessionEnd = t, !.currentTime = t]

\* the request body endSession posts
SessionBody(stats) ==
    LET start == IF stats.sessionStart = NoTime THEN 0 ELSE stats.sessionStart
        durationSeconds == ((stats.sessionEnd - start) * MsPerTick) \div 1000
        wordCount == countWords(join(sentences))
    IN  [sessionStart |-> stats.sessionStart,
         sessionEnd |-> stats.sessionEnd,
         durationSeconds |-> durationSeconds,
         totalCharacters |-> totalCharacters(sentences),
         correctCharacters |-> stats.correctCharacters,
         incorrectCharacters |-> stats.incorrectCharacters,
         accuracyPercentage |->
             IF stats.totalKeystrokes > 0
             THEN Frac(stats.correctCharacters * 100, stats.totalKeystrokes)
             ELSE Zero,
         wpm |-> IF durationSeconds > 0
                 THEN Frac(wordCount * 60, durationSeconds) ELSE Zero,
         sentencesCompleted |-> Len(sentences),
         wordCount |-> wordCount]

----------------------------------------------------------------------------
(* The engine driven by any user *)

Init ==
    /\ customModes = StoredCustomModes
    /\ currentMode = DEFAULT_MODES[1]
    /\ currentRun = Null
    /\ currentFloor = Null
    /\ currentCharIndex = 0
    /\ hasError = FALSE
    /\ typedCharacters = << >>
    /\ firstErrorPosition = NoPos
    /\ now = 0
    /\ saveRequests = << >>
    /\ typing_sessions = << >>
    /\ response = NoResponse
    /\ session = InitialSession
    /\ modeEdits = 0
    /\ lastEvent = Event("init", << >>, FALSE, FALSE)
    /\ script = << >>
    /\ scriptPos = 0

KeyPress ==
    /\ \E key \in Keys : \E rnd \in DrawsFor(key) : handleKeyPress(key, rnd)
    /\ UNCHANGED << script, scriptPos >>

ModeCard ==
    /\ \E i \in 1..Len(allModes) : UseMode(i)
    /\ UNCHANGED << script, scriptPos >>

QuickSwitch ==
    /\ \E i \in 1..Len(allModes) : QuickModeSwitch(i)
    /\ UNCHANGED << script, scriptPos >>

\* time passes between two events
Tick ==
    /\ now < MaxTime
    /\ now' = now + 1
    /\ lastEvent' = Event("tick", << >>, FALSE, FALSE)
    /\ UNCHANGED << engine, saveRequests, store, session, modeEdits, script, scriptPos >>

Next == KeyPress \/ ModeCard \/ QuickSwitch \/ Tick

Spec == Init /\ [][Next]_vars

----------------------------------------------------------------------------
(* The engine driven by a scripted user, who selects a mode and then       *)
(* presses the keys of one script.  The first key of a script starts the   *)
(* run; the scripts are the key sequences of the worked examples.          *)

ScriptCat == << Shift, <<"c">>, <<"a">>, <<"t">> >>
ScriptCxCat == << Shift, <<"c">>, <<"x">>, <<"c">>, <<"a">>, <<"t">> >>
ScriptCaxBackT == << Shift, <<"c">>, <<"a">>, <<"x">>, Backspace, <<"t">> >>
ScriptCaxBackBackTT ==
    << Shift, <<"c">>, <<"a">>, <<"x">>, Backspace, Backspace, <<"t">>, <<"t">> >>
ScriptCaxxBackBackT ==
    << Shift, <<"c">>, <<"a">>, <<"x">>, <<"x">>, Backspace, Backspace, <<"t">> >>
ScriptCaxtBackBackT ==
    << Shift, <<"c">>, <<"a">>, <<"x">>, <<"t">>, Backspace, Backspace, <<"t">> >>

Scripts == { ScriptCat, ScriptCxCat, ScriptCaxBackT, ScriptCaxBackBackTT,
             ScriptCaxxBackBackT, ScriptCaxtBackBackT }

InitScripted ==
    /\ customModes = StoredCustomModes
    /\ currentMode = DEFAULT_MODES[1]
    /\ currentRun = Null
    /\ currentFloor = Null
    /\ currentCharIndex = 0
    /\ hasError = FALSE
    /\ typedCharacters = << >>
    /\ firstErrorPosition = NoPos
    /\ now = 0
    /\ saveRequests = << >>
    /\ typing_sessions = << >>
    /\ response = NoResponse
    /\ session = InitialSession
    /\ modeEdits = 0
    /\ lastEvent = Event("init", << >>, FALSE, FALSE)
    /\ script \in Scripts
    /\ scriptPos = 0

ScriptedSelect ==
    /\ scriptPos = 0
    /\ \E i \in 1..Len(allModes) : UseMode(i)
    /\ UNCHANGED << script, scriptPos >>

ScriptedKey ==
    /\ scriptPos < Len(script)
    /\ \E rnd \in DrawsFor(script[scriptPos + 1]) :
          handleKeyPress(script[scriptPos + 1], rnd)
    /\ scriptPos' = scriptPos + 1
    /\ UNCHANGED script

NextScripted == ScriptedSelect \/ ScriptedKey

SpecScripted == InitScripted /\ [][NextScripted]_vars

----------------------------------------------------------------------------
(* The scripted user with the mode manager open: between the keys of the   *)
(* script modes are selected, created, edited, duplicated and deleted.     *)

ModeScripts == { ScriptCat, ScriptCaxBackT }

InitModes ==
    /\ customModes = StoredCustomModes
    /\ currentMode = DEFAULT_MODES[1]
    /\ currentRun = Null
    /\ currentFloor = Null
    /\ currentCharIndex = 0
    /\ hasError = FALSE
    /\ typedCharacters = << >>
    /\ firstErrorPosition = NoPos
    /\ now = 0
    /\ saveRequests = << >>
    /\ typing_sessions = << >>
    /\ response = NoResponse
    /\ session = InitialSession
    /\ modeEdits = 0
    /\ lastEvent = Event("init", << >>, FALSE, FALSE)
    /\ script \in ModeScripts
    /\ scriptPos = 0

NextModes ==
    \/ ScriptedKey
    \/ ModeCard
    \/ QuickSwitch
    \/ CreateMode
    \/ UpdateMode
    \/ DeleteMode
    \/ DuplicateMode

SpecModes == InitModes /\ [][NextModes]_vars

----------------------------------------------------------------------------
(* The mode manager on its own, starting from the built-in modes: modes are *)
(* created and edited through the form, duplicated and deleted.             *)

\* bound of the model: the number of operations of the mode manager
MaxManagerOps == 3

\* the names typed into the form
FormNames ==
    { << "a" >>, << "A" >>, << " ", "a", " " >>, << "b" >>, << >>, << " " >>,
      << "forgiving mode" >> }

InitManager ==
    /\ customModes = << >>
    /\ currentMode = DEFAULT_MODES[1]
    /\ currentRun = Null
    /\ currentFloor = Null
    /\ currentCharIndex = 0
    /\ hasError = FALSE
    /\ typedCharacters = << >>
    /\ firstErrorPosition = NoPos
    /\ now = 0
    /\ saveRequests = << >>
    /\ typing_sessions = << >>
    /\ response = NoResponse
    /\ session = InitialSession
    /\ modeEdits = 0
    /\ lastEvent = Event("init", << >>, FALSE, FALSE)
    /\ script = << >>
    /\ scriptPos = 0

SubmitCreate ==
    /\ ModeEditWithin(MaxManagerOps)
    /\ \E formName \in FormNames : \E settings \in FormSettings \cup FormWordSettings :
          handleSubmit(TRUE, Null, formName, settings)

SubmitEdit ==
    /\ ModeEditWithin(MaxManagerOps)
    /\ \E i \in 1..Len(customModes) : \E formName \in FormNames :
          \E settings \in FormSettings \cup FormWordSettings :
             handleSubmit(FALSE, customModes[i], formName, settings)

DuplicateButton ==
    /\ ModeEditWithin(MaxManagerOps)
    /\ \E i \in 1..Len(allModes) : duplicateMode(allModes[i])

DeleteButton ==
    /\ ModeEditWithin(MaxManagerOps)
    /\ \E i \in 1..Len(customModes) : deleteMode(customModes[i].id)

NextManager == SubmitCreate \/ SubmitEdit \/ DuplicateButton \/ DeleteButton

SpecManager == InitManager /\ [][NextManager]_vars

----------------------------------------------------------------------------
(* The engine on random-words modes.  The stored modes are modes the mode   *)
(* form saved: forgiving floor-count modes of target 2 whose floors are     *)
(* wordCount random words with a length in wordLength.min..wordLength.max   *)
(* (the form keeps min <= max); the user also presses the space bar.        *)

Space == << " " >>

WordSettings ==
    << [wordCount |-> 2, wordLength |-> [min |-> 2, max |-> 3],
        includeNumbers |-> FALSE, includePunctuation |-> FALSE],
       [wordCount |-> 2, wordLength |-> [min |-> 4, max |-> 4],
        includeNumbers |-> FALSE, includePunctuation |-> FALSE],
       [wordCount |-> 3, wordLength |-> [min |-> 4, max |-> 4],
        includeNumbers |-> FALSE, includePunctuation |-> FALSE] >>

StoredWordMode(i, words) ==
    [id |-> << "custom", i >>,
     name |-> << "Words", i >>,
     settings |-> [errorHandling |-> ErrorHandlingMode.FORGIVING,
                   runType |-> RunType.FLOOR_COUNT,
                   runTarget |-> 2,
                   floorGeneration |-> [type |-> FloorGenerationType.RANDOM_WORDS,
                                        sentenceList |-> NoList,
                                        wordCount |-> words.wordCount,
                                        wordLength |-> words.wordLength,
                                        includeNumbers |-> words.includeNumbers,
                                        includePunctuation |-> words.includePunctuation]],
     isDefault |-> FALSE]

StoredWordModes == [i \in 1..Len(WordSettings) |-> StoredWordMode(i, WordSettings[i])]

InitWords ==
    /\ customModes = StoredWordModes
    /\ currentMode = DEFAULT_MODES[1]
    /\ currentRun = Null
    /\ currentFloor = Null
    /\ currentCharIndex = 0
    /\ hasError = FALSE
    /\ typedCharacters = << >>
    /\ firstErrorPosition = NoPos
    /\ now = 0
    /\ saveRequests = << >>
    /\ typing_sessions = << >>
    /\ response = NoResponse
    /\ session = InitialSession
    /\ modeEdits = 0
    /\ lastEvent = Event("init", << >>, FALSE, FALSE)
    /\ script = << >>
    /\ scriptPos = 0

KeyPressWords ==
    /\ \E key \in PrintableKeys \cup { Space } :
          \E rnd \in DrawsFor(key) : handleKeyPress(key, rnd)
    /\ UNCHANGED << script, scriptPos >>

NextWords == KeyPressWords \/ ModeCard \/ Tick

SpecWords == InitWords /\ [][NextWords]_vars

----------------------------------------------------------------------------
(* The engine from its mount.  The effect that loads the custom modes runs  *)
(* once, after the first render and before any key event; then the user    *)
(* types in the initial built-in mode.                                      *)

\* what localStorage holds under 'customTypingModes': nothing, text that is
\* not JSON, the JSON of a list of modes, the JSON of a list of other
\* objects, the JSON of an object, the JSON of a number.  truthy is the test
\* if (savedModes), parses tells whether JSON.parse returns, iterable
\* whether the parsed value can be spread and items what the spread yields.
StoredItems ==
    << [tag |-> << "absent" >>, truthy |-> FALSE, parses |-> FALSE,
        iterable |-> FALSE, items |-> << >>],
       [tag |-> << "not json" >>, truthy |-> TRUE, parses |-> FALSE,
        iterable |-> FALSE, items |-> << >>],
       [tag |-> << "modes" >>, truthy |-> TRUE, parses |-> TRUE,
        iterable |-> TRUE, items |-> StoredCustomModes],
       [tag |-> << "list of objects" >>, truthy |-> TRUE, parses |-> TRUE,
        iterable |-> TRUE, items |-> << [x |-> 1] >>],
       [tag |-> << "object" >>, truthy |-> TRUE, parses |-> TRUE,
        iterable |-> FALSE, items |-> << >>],
       [tag |-> << "number" >>, truthy |-> TRUE, parses |-> TRUE,
        iterable |-> FALSE, items |-> << >>] >>

\* the stored values that are the JSON of a list of modes
WellFormedTags == { << "modes" >> }

\* the mount effect: JSON.parse in a try block whose catch only logs, then
\* setCustomModes(parsedModes) whatever was parsed.  The render that follows
\* spreads customModes into allModes: a value that cannot be spread throws
\* there, and with no error boundary the component tree is unmounted.
loadCustomModes(stored) ==
    IF ~stored.truthy \/ ~stored.parses
    THEN /\ KeepEngine(Event("loadCustomModes", stored.tag, FALSE, FALSE))
         /\ UNCHANGED customModes
    ELSE IF stored.iterable
    THEN /\ KeepEngine(Event("loadCustomModes", stored.tag, FALSE, FALSE))
         /\ customModes' = stored.items
    ELSE /\ KeepEngine(Event("renderError", stored.tag, FALSE, FALSE))
         /\ UNCHANGED customModes

InitLoad ==
    /\ customModes = << >>
    /\ currentMode = DEFAULT_MODES[1]
    /\ currentRun = Null
    /\ currentFloor = Null
    /\ currentCharIndex = 0
    /\ hasError = FALSE
    /\ typedCharacters = << >>
    /\ firstErrorPosition = NoPos
    /\ now = 0
    /\ saveRequests = << >>
    /\ typing_sessions = << >>
    /\ response = NoResponse
    /\ session = InitialSession
    /\ modeEdits = 0
    /\ lastEvent = Event("init", << >>, FALSE, FALSE)
    /\ script = << >>
    /\ scriptPos = 0

\* the effects have run and no render has thrown
Mounted == lastEvent.kind \notin { "init", "renderError" }

LoadCustomModes ==
    /\ lastEvent.kind = "init"
    /\ \E i \in 1..Len(StoredItems) : loadCustomModes(StoredItems[i])
    /\ UNCHANGED << now, saveRequests, store, session, modeEdits, script, scriptPos >>

KeyPressLoad ==
    /\ Mounted
    /\ KeyPress

TickLoad ==
    /\ Mounted
    /\ Tick

NextLoad == LoadCustomModes \/ KeyPressLoad \/ TickLoad

SpecLoad == InitLoad /\ [][NextLoad]_vars

----------------------------------------------------------------------------
(* The engine on random-words modes with numbers and punctuation.  The     *)
(* stored modes differ in the word count, the length bounds and the two    *)
(* switches; the user selects a mode and presses one key again and again.  *)

TokenSettings ==
    << [wordCount |-> 2, wordLength |-> [min |-> 2, max |-> 3],
        includeNumbers |-> FALSE, includePunctuation |-> FALSE],
       [wordCount |-> 2, wordLength |-> [min |-> 2, max |-> 3],
        includeNumbers |-> TRUE, includePunctuation |-> TRUE],
       [wordCount |-> 1, wordLength |-> [min |-> 2, max |-> 2],
        includeNumbers |-> TRUE, includePunctuation |-> FALSE],
       [wordCount |-> 3, wordLength |-> [min |-> 3, max |-> 3],
        includeNumbers |-> FALSE, includePunctuation |-> TRUE] >>

StoredTokenModes == [i \in 1..Len(TokenSettings) |-> StoredWordMode(i, TokenSettings[i])]

InitTokens ==
    /\ customModes = StoredTokenModes
    /\ currentMode = DEFAULT_MODES[1]
    /\ currentRun = Null
    /\ currentFloor = Null
    /\ currentCharIndex = 0
    /\ hasError = FALSE
    /\ typedCharacters = << >>
    /\ firstErrorPosition = NoPos
    /\ now = 0
    /\ saveRequests = << >>
    /\ typing_sessions = << >>
    /\ response = NoResponse
    /\ session = InitialSession
    /\ modeEdits = 0
    /\ lastEvent = Event("init", << >>, FALSE, FALSE)
    /\ script = << >>
    /\ scriptPos = 0

KeyPressTokens ==
    /\ \E rnd \in DrawsFor(<< "c" >>) : handleKeyPress(<< "c" >>, rnd)
    /\ UNCHANGED << script, scriptPos >>

NextTokens == KeyPressTokens \/ ModeCard

SpecTokens == InitTokens /\ [][NextTokens]_vars

----------------------------------------------------------------------------
(* The session store: POST /api/typing-sessions hands the request body to  *)
(* Database.saveTypingSession, which inserts one row into typing_sessions  *)
(* and resolves with the body and the id of the row.  No row is ever       *)
(* deleted, so the AUTOINCREMENT id of a new row is the number of rows     *)
(* plus one.                                                               *)

\* at most MaxSaves rows are inserted
MaxSaves == 4

\* a request body with every field of a session
FullSession ==
    [sessionStart |-> 0, sessionEnd |-> 1, durationSeconds |-> 60,
     totalCharacters |-> 3, correctCharacters |-> 2, incorrectCharacters |-> 1,
     accuracyPercentage |-> 66, wpm |-> 1, sentencesCompleted |-> 1,
     wordCount |-> 1]

\* the request bodies: a full session, one with another wpm, one without a
\* wordCount, two that carry an id of their own, and one without wpm
SessionBodies ==
    { FullSession,
      [FullSession EXCEPT !.wpm = 2],
      [f \in DOMAIN FullSession \ { "wordCount" } |-> FullSession[f]],
      FullSession @@ [id |-> 1],
      FullSession @@ [id |-> 7],
      [f \in DOMAIN FullSession \ { "wpm" } |-> FullSession[f]] }

\* the columns declared NOT NULL without a default, by the field bound to them
RequiredFields ==
    { "sessionStart", "sessionEnd", "durationSeconds", "totalCharacters",
      "correctCharacters", "incorrectCharacters", "accuracyPercentage", "wpm",
      "sentencesCompleted" }

\* Database.saveTypingSession behind the route: a field the body lacks is
\* bound as NULL and the insert fails on a NOT NULL column, which the route
\* answers with status 500; otherwise the row is inserted and the promise
\* resolves with { id: this.lastID, ...sessionData }
saveTypingSession(sessionData) ==
    LET lastID == Len(typing_sessions) + 1
        row == [id |-> lastID,
                session_start |-> sessionData.sessionStart,
                session_end |-> sessionData.sessionEnd,
                duration_seconds |-> sessionData.durationSeconds,
                total_characters |-> sessionData.totalCharacters,
                correct_characters |-> sessionData.correctCharacters,
                incorrect_characters |-> sessionData.incorrectCharacters,
                accuracy_percentage |-> sessionData.accuracyPercentage,
                wpm |-> sessionData.wpm,
                sentences_completed |-> sessionData.sentencesCompleted,
                word_count |-> IF "wordCount" \in DOMAIN sessionData
                               THEN sessionData.wordCount ELSE 0]
    IN  IF RequiredFields \subseteq DOMAIN sessionData
        THEN /\ typing_sessions' = Append(typing_sessions, row)
             /\ response' = [status |-> 200, success |-> TRUE,
                             data |-> sessionData @@ [id |-> lastID]]
        ELSE /\ typing_sessions' = typing_sessions
             /\ response' = [status |-> 500, success |-> FALSE]

InitStore ==
    /\ customModes = << >>
    /\ currentMode = DEFAULT_MODES[1]
    /\ currentRun = Null
    /\ currentFloor = Null
    /\ currentCharIndex = 0
    /\ hasError = FALSE
    /\ typedCharacters = << >>
    /\ firstErrorPosition = NoPos
    /\ now = 0
    /\ saveRequests = << >>
    /\ typing_sessions = << >>
    /\ response = NoResponse
    /\ session = InitialSession
    /\ modeEdits = 0
    /\ lastEvent = Event("init", << >>, FALSE, FALSE)
    /\ script = << >>
    /\ scriptPos = 0

PostTypingSession ==
    /\ Len(typing_sessions) < MaxSaves
    /\ \E sessionData \in SessionBodies : saveTypingSession(sessionData)
    /\ lastEvent' = Event("postTypingSession", << >>, FALSE, FALSE)
    /\ UNCHANGED << engine, now, saveRequests, session, modeEdits, script, scriptPos >>

NextStore == PostTypingSession

SpecStore == InitStore /\ [][NextStore]_vars

----------------------------------------------------------------------------
(* The engine driven by a user who selects a stored floor-count mode,      *)
(* types freely, and from some moment on presses only the key that makes   *)
(* progress: the expected character, or Backspace while an error is active *)
(* in perfectionist mode.  scriptPos is 1 from that moment on.  The keys   *)
(* pressed from then on are not bounded; the user goes on pressing the key *)
(* for as long as a floor is current.                                      *)

FloorCountModes ==
    LET IsFloorCount(mode) == mode.settings.runType = RunType.FLOOR_COUNT
    IN  SelectSeq(StoredCustomModes, IsFloorCount)

\* the key that makes progress on the current floor
ProgressMakingKey ==
    IF IsPerfectionist /\ hasError THEN Backspace
    ELSE IF IsForgiving THEN CharAt(currentFloor.text, currentCharIndex)
    ELSE CharAt(currentFloor.text, Len(typedCharacters))

InitLive ==
    /\ customModes = FloorCountModes
    /\ currentMode = DEFAULT_MODES[1]
    /\ currentRun = Null
    /\ currentFloor = Null
    /\ currentCharIndex = 0
    /\ hasError = FALSE
    /\ typedCharacters = << >>
    /\ firstErrorPosition = NoPos
    /\ now = 0
    /\ saveRequests = << >>
    /\ typing_sessions = << >>
    /\ response = NoResponse
    /\ session = InitialSession
    /\ modeEdits = 0
    /\ lastEvent = Event("init", << >>, FALSE, FALSE)
    /\ script = << >>
    /\ scriptPos = 0

LiveSelect ==
    /\ scriptPos = 0
    /\ \E i \in 1..Len(customModes) : UseMode(Len(DEFAULT_MODES) + i)
    /\ UNCHANGED << script, scriptPos >>

LiveFreeKey ==
    /\ scriptPos = 0
    /\ ~currentMode.isDefault
    /\ KeyPress

ProgressKey ==
    /\ ~currentMode.isDefault
    /\ currentRun # Null
    /\ currentFloor # Null
    /\ \E rnd \in DrawsFor(ProgressMakingKey) : KeyHandler(ProgressMakingKey, rnd)
    /\ scriptPos' = 1
    /\ UNCHANGED script

NextLive == LiveSelect \/ LiveFreeKey \/ ProgressKey

SpecLive == InitLive /\ [][NextLive]_vars /\ WF_vars(ProgressKey)

--------------------------------------------------------------------------------
(* The handlers of the session-based App, as functions of the state st the
   handler's closure holds and the time t of the event.  The updates of
   typingStats are applied in the order the handler queues them: the counts
   are functional updates, startSession and endSession set the whole value. *)

\* setTypingStats(prev => ...) of a counted keystroke
CountKeystroke(stats, correct) ==
    [stats EXCEPT !.totalKeystrokes = @ + 1,
                  !.correctCharacters = IF correct THEN @ + 1 ELSE @,
                  !.incorrectCharacters = IF correct THEN @ ELSE @ + 1]

\* the first keystroke starts the session
SessionStarted(st, t) ==
    IF ~st.sessionActive /\ st.typingStats.sessionStart = NoTime
    THEN [st EXCEPT !.typingStats = startSession(t), !.sessionActive = TRUE]
    ELSE st

\* endSession at the last sentence's completion: the session is made inactive,
\* typingStats is replaced by the closure's value ended at t, and the body is
\* posted; the handler then returns to the first sentence
endSession(st, queued, t) ==
    LET final == finalStats(st.typingStats, t)
    IN  [queued EXCEPT !.sessionActive = FALSE,
                       !.typingStats = final,
                       !.posts = Append(@, SessionBody(final)),
                       !.currentSentenceIndex = 0,
                       !.currentCharIndex = 0,
                       !.typedCharacters = << >>]

\* the sentence is completed: the session ends after the last one
SentenceCompleted(st, queued, t) ==
    IF st.currentSentenceIndex = Len(sentences) - 1
    THEN endSession(st, queued, t)
    ELSE [queued EXCEPT !.currentSentenceIndex = st.currentSentenceIndex + 1,
                        !.currentCharIndex = 0,
                        !.typedCharacters = << >>]

\* a counted key in strict mode
StrictKey(st, s0, key, t) ==
    LET currentSentence == sentences[st.currentSentenceIndex + 1]
        expectedChar == CharAt(currentSentence, st.currentCharIndex)
    IN  IF key = expectedChar
        THEN LET counted == [s0 EXCEPT !.hasError = FALSE,
                                       !.typingStats = CountKeystroke(@, TRUE)]
             IN  IF st.currentCharIndex = Len(currentSentence) - 1
                 THEN SentenceCompleted(st, counted, t)
                 ELSE [counted EXCEPT
                           !.currentCharIndex = st.currentCharIndex + 1]
        ELSE [s0 EXCEPT !.hasError = TRUE,
                        !.typingStats = CountKeystroke(@, FALSE)]

\* a counted key in permissive mode
PermissiveKey(st, s0, key, t) ==
    LET currentSentence == sentences[st.currentSentenceIndex + 1]
        newTypedChars == st.typedCharacters \o key
        expectedChar == CharAt(currentSentence, Len(st.typedCharacters))
        hasCurrentError ==
            \E i \in 1..Len(newTypedChars) :
                << newTypedChars[i] >> # CharAt(currentSentence, i - 1)
        typed == [s0 EXCEPT !.typedCharacters = newTypedChars,
                            !.currentCharIndex = Len(newTypedChars),
                            !.hasError = hasCurrentError]
    IN  IF key = expectedChar
        THEN LET counted ==
                     [typed EXCEPT !.typingStats = CountKeystroke(@, TRUE)]
             IN  IF newTypedChars = currentSentence
                 THEN SentenceCompleted(st, counted, t)
                 ELSE counted
        ELSE [typed EXCEPT !.typingStats = CountKeystroke(@, FALSE)]

\* Backspace in permissive mode
PermissiveBackspace(st, s0) ==
    IF Len(st.typedCharacters) > 0
    THEN LET newTypedChars == DropLast(st.typedCharacters)
         IN  [s0 EXCEPT !.typedCharacters = newTypedChars,
                        !.currentCharIndex = Len(newTypedChars),
                        !.hasError = FALSE]
    ELSE s0

\* handleKeyPress of the session-based App
sessionKeyPress(st, key, t) ==
    LET s0 == SessionStarted(st, t)
    IN  IF key = Backspace /\ st.currentMode.errorHandling = PERMISSIVE
        THEN PermissiveBackspace(st, s0)
        ELSE IF Len(key) > 1 /\ key # << " " >> THEN s0
        ELSE IF st.currentMode.errorHandling = STRICT
        THEN StrictKey(st, s0, key, t)
        ELSE PermissiveKey(st, s0, key, t)

\* the mode button
selectSessionMode(st, mode) ==
    [st EXCEPT !.currentMode = mode, !.currentSentenceIndex = 0,
               !.currentCharIndex = 0, !.typedCharacters = << >>,
               !.hasError = FALSE]

\* the interval callback setting the statistics from the values of the
\* session's start
timerCallbackOfStart(st, t) ==
    [st EXCEPT !.typingStats =
        [startSession(t) EXCEPT !.sessionStart = st.typingStats.sessionStart]]

\* the interval callback of the timer effect
timerCallback(st, t) == [st EXCEPT !.typingStats.currentTime = t]

--------------------------------------------------------------------------------
(* The session-based App with its requests.  A request in flight settles in
   a step of its own: the store answers it, the store refuses it with status
   500, or the store is unreachable and fetch rejects. *)

RequestOutcomes == { "answered", "refused", "unreachable" }

RECURSIVE Reversed(_)
Reversed(rows) ==
    IF rows = << >> THEN << >>
    ELSE Append(Reversed(Tail(rows)), Head(rows))

\* Database.getRecentSessions: the newest rows first, limit of them at most
getRecentSessions(limit) ==
    LET rows == Reversed(typing_sessions)
    IN  SubSeq(rows, 1, IF Len(rows) < limit THEN Len(rows) ELSE limit)

InitSession ==
    /\ customModes = << >>
    /\ currentMode = DEFAULT_MODES[1]
    /\ currentRun = Null
    /\ currentFloor = Null
    /\ currentCharIndex = 0
    /\ hasError = FALSE
    /\ typedCharacters = << >>
    /\ firstErrorPosition = NoPos
    /\ now = 0
    /\ saveRequests = << >>
    /\ typing_sessions = << >>
    /\ response = NoResponse
    /\ session = InitialSession
    /\ modeEdits = 0
    /\ lastEvent = Event("init", << >>, FALSE, FALSE)
    /\ script = << >>
    /\ scriptPos = 0

\* the keys pressed in a session: the characters of the sentences, each the
\* wrong key where another is expected, and Backspace, which strict mode
\* ignores as a named key
SessionKeys == { << "c" >>, << "a" >>, << "t" >>, Backspace }

\* a keydown event; the body endSession posts is a request to the store
SessionKeyPress ==
    /\ session.typingStats.totalKeystrokes < MaxSessionKeystrokes
    /\ \E key \in SessionKeys :
        /\ session' = sessionKeyPress(session, key, now)
        /\ lastEvent' = Event("sessionKey", key, FALSE, FALSE)
    /\ saveRequests' =
           IF Len(session'.posts) > Len(session.posts)
           THEN Append(saveRequests, session'.posts[Len(session'.posts)])
           ELSE saveRequests
    /\ UNCHANGED << engine, now, store, modeEdits, script, scriptPos >>

\* a click on a mode button
SessionModeButton ==
    /\ \E i \in 1..Len(TYPING_MODES) :
           session' = selectSessionMode(session, TYPING_MODES[i])
    /\ lastEvent' = Event("sessionMode", << >>, FALSE, FALSE)
    /\ UNCHANGED << engine, now, saveRequests, store, modeEdits, script, scriptPos >>

\* the interval of the timer effect fires; it exists while the session is
\* active
SessionTimer ==
    /\ session.sessionActive
    /\ session' = timerCallback(session, now)
    /\ lastEvent' = Event("sessionTimer", << >>, FALSE, FALSE)
    /\ UNCHANGED << engine, now, saveRequests, store, modeEdits, script, scriptPos >>

\* the POST settling, posted again when the store was unreachable
SaveSettlesRetrying(outcome) ==
    /\ session.posts # << >>
    /\ CASE outcome = "answered" ->
              /\ saveTypingSession(Head(session.posts))
              /\ saveRequests' = saveRequests
              /\ session' = [session EXCEPT !.posts = Tail(@),
                                            !.loads = @ + 1]
         [] outcome = "refused" ->
              /\ response' = [status |-> 500, success |-> FALSE]
              /\ typing_sessions' = typing_sessions
              /\ saveRequests' = saveRequests
              /\ session' =
                     [session EXCEPT
                          !.posts = Tail(@),
                          !.errors = Append(@, "Error saving session:")]
         [] OTHER ->
              /\ UNCHANGED store
              /\ saveRequests' = Append(saveRequests, Head(session.posts))
              /\ session' =
                     [session EXCEPT
                          !.errors = Append(@, "Failed to save session:")]
    /\ lastEvent' = Event("saveSettles", << outcome >>, FALSE, FALSE)
    /\ UNCHANGED << engine, now, modeEdits, script, scriptPos >>

\* the POST of endSession settles
SaveSettles(outcome) ==
    /\ session.posts # << >>
    /\ CASE outcome = "answered" ->
              /\ saveTypingSession(Head(session.posts))
              /\ session' = [session EXCEPT !.posts = Tail(@),
                                            !.loads = @ + 1]
         [] outcome = "refused" ->
              /\ response' = [status |-> 500, success |-> FALSE]
              /\ typing_sessions' = typing_sessions
              /\ session' =
                     [session EXCEPT
                          !.posts = Tail(@),
                          !.errors = Append(@, "Error saving session:")]
         [] OTHER ->
              /\ UNCHANGED store
              /\ session' =
                     [session EXCEPT
                          !.posts = Tail(@),
                          !.errors = Append(@, "Failed to save session:")]
    /\ lastEvent' = Event("saveSettles", << outcome >>, FALSE, FALSE)
    /\ UNCHANGED << engine, now, saveRequests, modeEdits, script, scriptPos >>

\* the GET of loadHistoricalData settles
LoadSettles(outcome) ==
    /\ session.loads > 0
    /\ session' =
           CASE outcome = "answered" ->
                  [session EXCEPT !.loads = @ - 1,
                                  !.historicalSessions = getRecentSessions(10)]
             [] outcome = "refused" ->
                  [session EXCEPT
                       !.loads = @ - 1,
                       !.errors = Append(@, "Error fetching sessions:")]
             [] OTHER ->
                  [session EXCEPT
                       !.loads = @ - 1,
                       !.historicalSessions = << >>,
                       !.errors =
                           Append(@, "Failed to load historical data:")]
    /\ lastEvent' = Event("loadSettles", << outcome >>, FALSE, FALSE)
    /\ UNCHANGED << engine, now, saveRequests, store, modeEdits, script, scriptPos >>

SaveRequestSettles == \E outcome \in RequestOutcomes : SaveSettles(outcome)

LoadRequestSettles == \E outcome \in RequestOutcomes : LoadSettles(outcome)

NextSession ==
    \/ SessionKeyPress
    \/ SessionModeButton
    \/ SessionTimer
    \/ SaveRequestSettles
    \/ LoadRequestSettles
    \/ Tick

SpecSession == InitSession /\ [][NextSession]_vars

----------------------------------------------------------------------------
(* Properties.  In an action formula the unprimed variables are the state  *)
(* the handler found and lastEvent' is the event it handled.               *)

FloorIsCurrent == currentRun # Null /\ currentFloor # Null

\* the step handles a key event of a printable key
PrintableKeyStep == lastEvent'.kind = "key" /\ lastEvent'.key \in PrintableKeys

\* the floor that was current before the step, as it is after the step: still
\* the current floor, or the last floor recorded in the run
FloorAfter == IF lastEvent'.floorComplete
              THEN currentRun'.floors[Len(currentRun'.floors)]
              ELSE currentFloor'

(* C1: in forgiving mode with a current floor, a printable key that differs *)
(* from the text character at the position sets the error flag, adds        *)
(* exactly 1 to the floor's incorrectCharacters and leaves the position and *)
(* correctCharacters as they are, however many wrong keys came before; and  *)
(* the position increases only on the expected character.                   *)
C1_WrongKeyBlocks ==
    [][ (IsForgiving /\ FloorIsCurrent) =>
          /\ (PrintableKeyStep
                /\ lastEvent'.key # CharAt(currentFloor.text, currentCharIndex))
             => /\ hasError'
                /\ currentFloor' # Null
                /\ currentFloor'.incorrectCharacters
                      = currentFloor.incorrectCharacters + 1
                /\ currentFloor'.correctCharacters = currentFloor.correctCharacters
                /\ currentFloor'.text = currentFloor.text
                /\ currentCharIndex' = currentCharIndex
                /\ currentRun' = currentRun
          /\ currentCharIndex' > currentCharIndex
             => /\ lastEvent'.kind = "key"
                /\ lastEvent'.key = CharAt(currentFloor.text, currentCharIndex)
      ]_vars

\* a second wrong key in a row has been handled on a forgiving floor
C1_Witness ==
    /\ IsForgiving
    /\ FloorIsCurrent
    /\ lastEvent.kind = "key"
    /\ lastEvent.key = <<"x">>
    /\ hasError
    /\ currentFloor.incorrectCharacters >= 2
    /\ currentCharIndex = 1

(* C2: in forgiving mode a printable key equal to the text character at the *)
(* position clears the error flag, adds 1 to the floor's correctCharacters  *)
(* and advances the position by 1; completeCurrentFloor is called exactly   *)
(* in the steps where such a key is typed at the last index of the text.    *)
C2_MatchingKeyAdvances ==
    [][ (IsForgiving /\ FloorIsCurrent /\ lastEvent'.kind = "key") =>
          LET matches == /\ lastEvent'.key \in PrintableKeys
                         /\ lastEvent'.key = CharAt(currentFloor.text, currentCharIndex)
          IN  /\ matches
                 => /\ ~hasError'
                    /\ FloorAfter.correctCharacters
                          = currentFloor.correctCharacters + 1
                    /\ currentCharIndex' = currentCharIndex + 1
              /\ lastEvent'.floorComplete
                 <=> (matches /\ currentCharIndex = Len(currentFloor.text) - 1)
      ]_vars

(* C3: in perfectionist mode completeCurrentFloor is called only in a step  *)
(* that found no error active, whose key is the text character at the typed *)
(* length, and whose typed text with the key appended is the floor text.    *)
C3_CompleteOnlyOnExactText ==
    [][ (IsPerfectionist /\ FloorIsCurrent /\ lastEvent'.floorComplete) =>
          /\ ~hasError
          /\ firstErrorPosition = NoPos
          /\ PrintableKeyStep
          /\ lastEvent'.key = CharAt(currentFloor.text, Len(typedCharacters))
          /\ typedCharacters \o lastEvent'.key = currentFloor.text
          /\ ~hasError'
      ]_vars

\* a perfectionist floor has been completed after an error was corrected
C3_Witness ==
    /\ IsPerfectionist
    /\ currentRun # Null
    /\ lastEvent.floorComplete
    /\ currentRun.floors[Len(currentRun.floors)].incorrectCharacters > 0

(* C4: in perfectionist mode the first mismatching key sets                 *)
(* firstErrorPosition to the typed length before the key and sets the error *)
(* flag; while an error is active every printable key, the character        *)
(* expected at the error position included, is appended to the typed text   *)
(* and counted in incorrectCharacters, and leaves firstErrorPosition and    *)
(* correctCharacters as they are.                                           *)
C4_ErrorLocks ==
    [][ (IsPerfectionist /\ FloorIsCurrent /\ PrintableKeyStep) =>
          LET key == lastEvent'.key
              counted ==
                  /\ currentFloor' # Null
                  /\ typedCharacters' = typedCharacters \o key
                  /\ currentFloor'.incorrectCharacters
                        = currentFloor.incorrectCharacters + 1
                  /\ currentFloor'.correctCharacters = currentFloor.correctCharacters
                  /\ hasError'
          IN  /\ (firstErrorPosition = NoPos
                    /\ key # CharAt(currentFloor.text, Len(typedCharacters)))
                 => (counted /\ firstErrorPosition' = Len(typedCharacters))
              /\ firstErrorPosition # NoPos
                 => (counted /\ firstErrorPosition' = firstErrorPosition)
      ]_vars

\* with an error active, the character expected at the error position has
\* been typed
C4_Witness ==
    /\ IsPerfectionist
    /\ FloorIsCurrent
    /\ firstErrorPosition # NoPos
    /\ Len(typedCharacters) >= firstErrorPosition + 2
    /\ lastEvent.kind = "key"
    /\ lastEvent.key = CharAt(currentFloor.text, firstErrorPosition)
    /\ currentFloor.incorrectCharacters >= 2

(* C5: Backspace in perfectionist mode with a non-empty typed text removes  *)
(* exactly its last character and sets the position to the new length; it   *)
(* clears firstErrorPosition and the error flag if and only if an error is  *)
(* active and the new length is <= firstErrorPosition; with an empty typed  *)
(* text it changes nothing; it never changes the floor's counts.            *)
C5_Backspace ==
    [][ (IsPerfectionist /\ FloorIsCurrent
           /\ lastEvent'.kind = "key" /\ lastEvent'.key = Backspace) =>
          /\ currentFloor' = currentFloor
          /\ currentRun' = currentRun
          /\ IF Len(typedCharacters) > 0
             THEN /\ typedCharacters' = DropLast(typedCharacters)
                  /\ currentCharIndex' = Len(typedCharacters) - 1
                  /\ IF firstErrorPosition # NoPos
                        /\ Len(typedCharacters) - 1 <= firstErrorPosition
                     THEN firstErrorPosition' = NoPos /\ ~hasError'
                     ELSE /\ firstErrorPosition' = firstErrorPosition
                          /\ hasError' = hasError
             ELSE UNCHANGED engine
      ]_vars

\* a Backspace has just deleted the character at the error position
C5_Witness ==
    /\ IsPerfectionist
    /\ FloorIsCurrent
    /\ lastEvent.kind = "key"
    /\ lastEvent.key = Backspace
    /\ firstErrorPosition = NoPos
    /\ ~hasError
    /\ currentFloor.incorrectCharacters = 1
    /\ currentFloor.correctCharacters = Len(typedCharacters)
    /\ Len(typedCharacters) = 2

(* C6: a scripted user in perfectionist mode on the floor text "cat".       *)
(* The scripted run is on "cat" when its first floor has that text.         *)
FirstFloorText ==
    IF currentRun.floors # << >> THEN currentRun.floors[1].text ELSE currentFloor.text

ScriptedOnCat == IsPerfectionist /\ currentRun # Null /\ FirstFloorText = CAT

\* the first n keys of the script are ks, and exactly they have been pressed
Pressed(ks) ==
    /\ scriptPos = Len(ks)
    /\ Len(script) >= Len(ks)
    /\ SubSeq(script, 1, Len(ks)) = ks

(* C6 as stated: after c,a,x two Backspaces followed by t leave the typed   *)
(* text "ca", and the t typed after that completes the floor.               *)
C6_TwoBackspacesThenT ==
    (ScriptedOnCat /\ script = ScriptCaxBackBackTT) =>
        /\ scriptPos = 7 => typedCharacters = << "c", "a" >>
        /\ scriptPos = 8 => (lastEvent.floorComplete /\ currentRun.floorsCompleted = 1)

(* C6 as amended: c,a,x sets firstErrorPosition = 2; a further key other    *)
(* than Backspace, be it the expected t, is counted incorrect and leaves    *)
(* firstErrorPosition at 2; Backspaces down to the typed text "ca" (one     *)
(* after c,a,x, two after c,a,x and a further key) clear the error, and the *)
(* t typed then completes the floor; the floor completes in no earlier step *)
(* of these scripts, and after c,a,x and two Backspaces t,t does not        *)
(* complete it.                                                             *)
C6_CatScenario ==
    ScriptedOnCat =>
        /\ Pressed(<< Shift, <<"c">>, <<"a">>, <<"x">> >>)
           => /\ firstErrorPosition = 2
              /\ hasError
              /\ typedCharacters = << "c", "a", "x" >>
              /\ currentFloor.correctCharacters = 2
              /\ currentFloor.incorrectCharacters = 1
        /\ (Pressed(<< Shift, <<"c">>, <<"a">>, <<"x">>, <<"x">> >>)
              \/ Pressed(<< Shift, <<"c">>, <<"a">>, <<"x">>, <<"t">> >>))
           => /\ firstErrorPosition = 2
              /\ hasError
              /\ Len(typedCharacters) = 4
              /\ currentFloor.correctCharacters = 2
              /\ currentFloor.incorrectCharacters = 2
        /\ (script \in { ScriptCaxxBackBackT, ScriptCaxtBackBackT } /\ scriptPos = 7)
           => /\ typedCharacters = << "c", "a" >>
              /\ firstErrorPosition = NoPos
              /\ ~hasError
        /\ Pressed(<< Shift, <<"c">>, <<"a">>, <<"x">>, Backspace >>)
           => /\ typedCharacters = << "c", "a" >>
              /\ firstErrorPosition = NoPos
              /\ ~hasError
        /\ script \in { ScriptCaxBackT, ScriptCaxxBackBackT, ScriptCaxtBackBackT }
           => IF scriptPos = Len(script)
              THEN /\ lastEvent.floorComplete
                   /\ currentRun.floorsCompleted = 1
                   /\ currentRun.floors[1].text = CAT
              ELSE currentRun.floorsCompleted = 0
        /\ script = ScriptCaxBackBackTT
           => /\ currentRun.floorsCompleted = 0
              /\ scriptPos = 8 => typedCharacters = << "c", "t", "t" >>

\* c,a,x, the expected t, two Backspaces and t have been typed, and the floor
\* is complete
C6_Witness ==
    /\ ScriptedOnCat
    /\ script = ScriptCaxtBackBackT
    /\ scriptPos = 8
    /\ lastEvent.floorComplete
    /\ currentRun.floors[1].incorrectCharacters = 2

(* C7 as stated: a key event whose key name is longer than one character    *)
(* (Backspace in perfectionist mode apart) changes nothing of the engine,   *)
(* in every state, the state without a run included.                        *)
NamedKeyStep ==
    /\ lastEvent'.kind = "key"
    /\ Len(lastEvent'.key) > 1
    /\ ~(lastEvent'.key = Backspace /\ IsPerfectionist)

C7_NamedKeyIgnoredAlways == [][ NamedKeyStep => UNCHANGED engine ]_vars

(* C7 as amended: such a key event changes nothing of the engine whenever a *)
(* run exists, active or completed; when no run exists it starts a run, as  *)
(* every key does.                                                          *)
C7_NamedKeyIgnoredInRun ==
    [][ NamedKeyStep =>
          IF currentRun # Null THEN UNCHANGED engine
          ELSE /\ currentRun' # Null
               /\ currentRun'.isActive
               /\ currentFloor' # Null
      ]_vars

\* Shift has been pressed in the middle of a floor
C7_Witness ==
    /\ FloorIsCurrent
    /\ lastEvent.kind = "key"
    /\ lastEvent.key = Shift
    /\ currentCharIndex > 0
    /\ currentFloor.correctCharacters > 0

(* C8: in every reachable state, a run that exists and is active has a      *)
(* current floor whose startTime is stamped.                                *)
C8_NoGap ==
    (currentRun # Null /\ currentRun.isActive)
        => (currentFloor # Null /\ currentFloor.startTime # NoTime)

\* a floor completion has been committed together with the next floor
C8_Witness ==
    /\ currentRun # Null
    /\ currentRun.isActive
    /\ currentRun.floorsCompleted >= 1
    /\ lastEvent.floorComplete
    /\ currentFloor # Null
    /\ currentFloor.startTime # NoTime

(* C9: in every reachable state of every run, floorsCompleted is the number *)
(* of entries of the run's floors.                                          *)
C9_FloorsCompletedIsLen ==
    currentRun # Null => currentRun.floorsCompleted = Len(currentRun.floors)

\* a run has recorded two floors
C9_Witness ==
    /\ currentRun # Null
    /\ currentRun.floorsCompleted = 2
    /\ Len(currentRun.floors) = 2

(* C10: a floor-count run with runTarget N >= 1 is active exactly while     *)
(* floorsCompleted < N, floorsCompleted never exceeds N, and the step that  *)
(* completes the run is the floor completion that makes floorsCompleted N.  *)
C10_FloorCountRun ==
    (currentRun # Null /\ currentRun.runType = RunType.FLOOR_COUNT
        /\ currentRun.runTarget >= 1)
    => /\ currentRun.floorsCompleted <= currentRun.runTarget
       /\ currentRun.isActive <=> currentRun.floorsCompleted < currentRun.runTarget
       /\ ~currentRun.isActive => currentRun.endTime # NoTime
       /\ lastEvent.runComplete
          => /\ lastEvent.floorComplete
             /\ currentRun.floorsCompleted = currentRun.runTarget

\* a run with runTarget 2 has just completed, with its 2nd floor
C10_Witness ==
    /\ currentRun # Null
    /\ currentRun.runType = RunType.FLOOR_COUNT
    /\ currentRun.runTarget = 2
    /\ currentRun.floorsCompleted = 2
    /\ ~currentRun.isActive
    /\ lastEvent.runComplete

(* C11: an endless run never becomes Completed.  In every step taken with   *)
(* an endless run the run is active; a floor completion leaves the run      *)
(* active with one more floor recorded, the continuation predicate true and *)
(* a next floor current; the run stops being the current run only in a step *)
(* of a mode switch or a mode deletion.                                     *)
C11_EndlessNeverCompletes ==
    [][ (currentRun # Null /\ currentRun.runType = RunType.ENDLESS)
        => /\ currentRun.isActive
           /\ currentRun.endTime = NoTime
           /\ (lastEvent'.kind = "key" /\ lastEvent'.floorComplete)
              => /\ ~lastEvent'.runComplete
                 /\ currentRun' # Null
                 /\ currentRun'.floorsCompleted = currentRun.floorsCompleted + 1
                 /\ shouldContinueRun(currentRun', now')
                 /\ currentFloor' # Null
                 /\ ~currentFloor'.completed
                 /\ currentFloor'.startTime = now'
           /\ currentRun' # Null
              => /\ currentRun'.runType = RunType.ENDLESS
                 /\ currentRun'.isActive
                 /\ currentRun'.endTime = NoTime
           /\ currentRun' = Null
              => lastEvent'.kind \in { "useMode", "quickSwitch", "deleteMode" }
      ]_vars

\* an endless run has completed two floors and presents a third
C11_Witness ==
    /\ currentRun # Null
    /\ currentRun.runType = RunType.ENDLESS
    /\ currentRun.floorsCompleted = 2
    /\ currentRun.isActive
    /\ currentFloor # Null
    /\ lastEvent.floorComplete

\* milliseconds from the start of the run to clock value t
ElapsedMs(run, t) == (t - run.startTime) * MsPerTick

(* C12: a time-based run is evaluated only when a floor completes.  A step  *)
(* in which only time passes leaves run and floor as they are; the run      *)
(* stops being active only in a floor-completion step; a floor completion   *)
(* continues the run iff the minutes elapsed since the run's startTime are  *)
(* strictly less than runTarget, and ends it otherwise.                     *)
C12_TimeBasedAtFloorBoundaries ==
    [][ (currentRun # Null /\ currentRun.runType = RunType.TIME_BASED)
        => /\ lastEvent'.kind = "tick"
              => /\ now' > now
                 /\ currentRun' = currentRun
                 /\ currentFloor' = currentFloor
           /\ (currentRun.isActive /\ currentRun' # Null /\ ~currentRun'.isActive)
              => (lastEvent'.kind = "key" /\ lastEvent'.floorComplete
                    /\ lastEvent'.runComplete)
           /\ (lastEvent'.kind = "key" /\ lastEvent'.floorComplete)
              => /\ currentRun' # Null
                 /\ currentRun'.floorsCompleted = currentRun.floorsCompleted + 1
                 /\ IF ElapsedMs(currentRun, now') < currentRun.runTarget * 60 * 1000
                    THEN /\ currentRun'.isActive
                         /\ currentFloor' # Null
                         /\ ~lastEvent'.runComplete
                    ELSE /\ ~currentRun'.isActive
                         /\ currentFloor' = Null
                         /\ lastEvent'.runComplete
      ]_vars

\* a time-based run continued after its first floor and ended with its
\* second, completed when the target time had passed
C12_Witness ==
    /\ currentRun # Null
    /\ currentRun.runType = RunType.TIME_BASED
    /\ currentRun.floorsCompleted = 2
    /\ ~currentRun.isActive
    /\ lastEvent.runComplete
    /\ ElapsedMs(currentRun, currentRun.endTime) >= currentRun.runTarget * 60 * 1000

(* C13: a floor completion at which the continuation predicate is false     *)
(* completes the run in that very step: endTime is stamped, isActive is     *)
(* false, the floor just completed is the last entry of floors and is       *)
(* counted in floorsCompleted and the totals, and no floor is current       *)
(* afterwards.  A floor completion at which it is true does not.            *)
C13_RunCompletedAtFloorCompletion ==
    [][ (lastEvent'.kind = "key" /\ lastEvent'.floorComplete)
        => /\ currentRun # Null /\ currentFloor # Null /\ currentRun' # Null
           /\ lastEvent'.runComplete <=> ~shouldContinueRun(currentRun', now')
           /\ LET last == currentRun'.floors[Len(currentRun'.floors)]
              IN  /\ Len(currentRun'.floors) = Len(currentRun.floors) + 1
                  /\ SubSeq(currentRun'.floors, 1, Len(currentRun.floors))
                        = currentRun.floors
                  /\ last.text = currentFloor.text
                  /\ last.startTime = currentFloor.startTime
                  /\ last.completed
                  /\ last.endTime = now'
                  /\ currentRun'.floorsCompleted = currentRun.floorsCompleted + 1
                  /\ currentRun'.totalCharacters
                        = currentRun.totalCharacters + Len(last.text)
                  /\ currentRun'.totalCorrectCharacters
                        = currentRun.totalCorrectCharacters + last.correctCharacters
                  /\ currentRun'.totalIncorrectCharacters
                        = currentRun.totalIncorrectCharacters + last.incorrectCharacters
           /\ lastEvent'.runComplete
              => /\ currentRun.isActive
                 /\ ~currentRun'.isActive
                 /\ currentRun'.endTime = now'
                 /\ currentFloor' = Null
           /\ ~lastEvent'.runComplete
              => /\ currentRun'.isActive
                 /\ currentRun'.endTime = NoTime
                 /\ currentFloor' # Null
      ]_vars

\* a run has just been completed by its second floor, after time has passed
C13_Witness ==
    /\ currentRun # Null
    /\ lastEvent.runComplete
    /\ ~currentRun.isActive
    /\ currentRun.endTime = 1
    /\ currentFloor = Null
    /\ Len(currentRun.floors) = 2
    /\ currentRun.totalIncorrectCharacters > 0

(* C14: every run completion posts the final run to the session store       *)
(* exactly once: when a completed run is the current run, the last request  *)
(* issued carries that run, and no other request carries it.                *)
C14_SaveOnCompletion ==
    (currentRun # Null /\ ~currentRun.isActive)
        => /\ saveRequests # << >>
           /\ saveRequests[Len(saveRequests)] = currentRun
           /\ Cardinality({ i \in 1..Len(saveRequests) : saveRequests[i] = currentRun }) = 1

(* C15: after a run has reached Completed the next key press creates a      *)
(* fresh active run with floor 1: a key step taken with a completed run     *)
(* leaves an active run with no floor recorded and a current floor.         *)
C15_KeyAfterCompletedStartsRun ==
    [][ (currentRun # Null /\ ~currentRun.isActive /\ lastEvent'.kind = "key")
        => /\ currentRun' # Null
           /\ currentRun'.isActive
           /\ currentRun'.floorsCompleted = 0
           /\ currentRun'.startTime = now'
           /\ currentFloor' # Null
           /\ currentFloor'.startTime = now'
      ]_vars

\* the product of the denominators of the floors' wpm
RECURSIVE DenProduct(_)
DenProduct(floors) ==
    IF floors = << >> THEN 1 ELSE Head(floors).wpm.den * DenProduct(Tail(floors))

\* the sum of the floors' wpm, as a numerator over DenProduct(all)
RECURSIVE NumSum(_, _)
NumSum(floors, all) ==
    IF floors = << >> THEN 0
    ELSE Head(floors).wpm.num * (DenProduct(all) \div Head(floors).wpm.den)
            + NumSum(Tail(floors), all)

\* a run whose one recorded floor has wpm 60
RunOfWpm60 ==
    [NewRun(DEFAULT_MODES[1], 0) EXCEPT
        !.floors = << [NewFloor(CAT) EXCEPT !.wpm = Frac(60, 1)] >>,
        !.floorsCompleted = 1,
        !.averageWPM = Frac(60, 1)]

(* C16: after every floor completion the run's averageWPM is the unweighted *)
(* arithmetic mean of the wpm of the floors in run.floors: averageWPM times *)
(* the number of floors equals the sum of the floors' wpm (compared over    *)
(* the common denominator of the floors); folding a floor of wpm 0 into a   *)
(* run whose one floor has wpm 60 gives averageWPM 30.                      *)
C16_AverageWpmIsUnweightedMean ==
    /\ (currentRun # Null /\ currentRun.floors # << >>)
        => currentRun.averageWPM.num * Len(currentRun.floors) * DenProduct(currentRun.floors)
              = currentRun.averageWPM.den * NumSum(currentRun.floors, currentRun.floors)
    /\ UpdatedRun(RunOfWpm60, [NewFloor(AT) EXCEPT !.wpm = Zero]).averageWPM = Frac(30, 1)

\* a run whose floors "cat" and "at" have wpm 1 and 0: the mean is 1/2, the
\* mean weighted by text length would be 3/5
C16_Witness ==
    /\ currentRun # Null
    /\ Len(currentRun.floors) = 2
    /\ currentRun.floors[1].text = CAT
    /\ currentRun.floors[1].wpm = Frac(1, 1)
    /\ currentRun.floors[2].text = AT
    /\ currentRun.floors[2].wpm = Zero
    /\ currentRun.averageWPM = Frac(1, 2)

\* x is the percentage of correct in correct + incorrect, 0 when there is none
IsPercentageOf(x, correct, incorrect) ==
    /\ x.den > 0
    /\ x.num >= 0
    /\ x.num <= 100 * x.den
    /\ IF correct + incorrect > 0
       THEN x.num * (correct + incorrect) = x.den * correct * 100
       ELSE x.num = 0

(* C17: every floor in run.floors has an accuracy in [0,100] equal to       *)
(* correctCharacters / (correctCharacters + incorrectCharacters) * 100, or  *)
(* 0 when both counts are 0; the run's averageAccuracy is the same formula  *)
(* applied to totalCorrectCharacters and totalIncorrectCharacters.          *)
C17_AccuracyFormula ==
    currentRun # Null
    => /\ \A i \in 1..Len(currentRun.floors) :
             IsPercentageOf(currentRun.floors[i].accuracy,
                            currentRun.floors[i].correctCharacters,
                            currentRun.floors[i].incorrectCharacters)
       /\ IsPercentageOf(currentRun.averageAccuracy,
                         currentRun.totalCorrectCharacters,
                         currentRun.totalIncorrectCharacters)

\* two recorded floors of different accuracy, neither 0 nor 100 in the run
C17_Witness ==
    /\ currentRun # Null
    /\ Len(currentRun.floors) = 2
    /\ currentRun.floors[1].incorrectCharacters > 0
    /\ currentRun.floors[1].correctCharacters > 0
    /\ currentRun.floors[2].incorrectCharacters = 0
    /\ currentRun.floors[2].accuracy = Frac(100, 1)
    /\ currentRun.averageAccuracy \notin { Zero, Frac(100, 1) }

\* the number of whitespace-delimited tokens of a text: its maximal runs of
\* characters other than the space
Tokens(text) ==
    Cardinality({ i \in 1..Len(text) :
                    text[i] # " " /\ (i = 1 \/ text[i - 1] = " ") })

\* x is a finite number >= 0
FiniteNonNegative(x) == x.den > 0 /\ x.num >= 0

(* C18: every completed floor has wpm = wordCount / (durationSeconds / 60)  *)
(* when durationSeconds = endTime - startTime is positive and 0 otherwise,  *)
(* wordCount being the number of whitespace-delimited tokens of the floor's *)
(* text; wpm, accuracy, averageWPM and averageAccuracy are finite and not   *)
(* negative.                                                                *)
C18_WpmOfTokens ==
    currentRun # Null
    => /\ \A i \in 1..Len(currentRun.floors) :
             LET floor == currentRun.floors[i]
                 durationMs == (floor.endTime - floor.startTime) * MsPerTick
             IN  /\ FiniteNonNegative(floor.wpm)
                 /\ FiniteNonNegative(floor.accuracy)
                 /\ IF durationMs > 0
                    THEN floor.wpm.num * durationMs
                            = floor.wpm.den * Tokens(floor.text) * 60 * 1000
                    ELSE floor.wpm = Zero
       /\ FiniteNonNegative(currentRun.averageWPM)
       /\ FiniteNonNegative(currentRun.averageAccuracy)
       /\ currentFloor # Null
          => FiniteNonNegative(currentFloor.wpm) /\ FiniteNonNegative(currentFloor.accuracy)

\* sentenceList[(n - 1) mod len(sentenceList)], lists being indexed from 1 here
NthSentence(list, n) == list[((n - 1) % Len(list)) + 1]

\* sequential settings over the list A, B, C
SettingsABC ==
    [type |-> FloorGenerationType.SEQUENTIAL_SENTENCES,
     sentenceList |-> << << "A" >>, << "B" >>, << "C" >> >>]

(* C19: sequential generation yields sentenceList[(n-1) mod len] for floor  *)
(* number n and nothing else of the call matters; in a run of a sequential  *)
(* mode the k-th recorded floor and the floor presented as number           *)
(* floorsCompleted+1 have that text, so every run starts at the first       *)
(* sentence; with the list A,B,C floors 1..4 are A,B,C,A.                   *)
C19_SequentialSentences ==
    /\ [n \in 1..4 |-> SequentialGenerateFloor(n, SettingsABC).text]
          = << << "A" >>, << "B" >>, << "C" >>, << "A" >> >>
    /\ (currentRun # Null
          /\ currentMode.settings.floorGeneration.type
                = FloorGenerationType.SEQUENTIAL_SENTENCES)
       => LET list == SentencesOf(currentMode.settings.floorGeneration)
          IN  /\ \A k \in 1..Len(currentRun.floors) :
                    currentRun.floors[k].text = NthSentence(list, k)
              /\ currentFloor # Null
                 => currentFloor = [SequentialGenerateFloor(currentRun.floorsCompleted + 1,
                                        currentMode.settings.floorGeneration)
                                      EXCEPT !.startTime = currentFloor.startTime,
                                             !.correctCharacters = currentFloor.correctCharacters,
                                             !.incorrectCharacters = currentFloor.incorrectCharacters]
              /\ currentFloor # Null
                 => currentFloor.text = NthSentence(list, currentRun.floorsCompleted + 1)

\* a run over the list "cat", "at" has recorded both and presents "cat" again
C19_Witness ==
    /\ currentRun # Null
    /\ currentMode.settings.floorGeneration.type = FloorGenerationType.SEQUENTIAL_SENTENCES
    /\ currentMode.settings.floorGeneration.sentenceList = << CAT, AT >>
    /\ Len(currentRun.floors) = 2
    /\ currentRun.floors[1].text = CAT
    /\ currentRun.floors[2].text = AT
    /\ currentFloor # Null
    /\ currentFloor.text = CAT

\* the kinds of the mode-management events that do not select a mode
ModeEditKinds == { "createMode", "updateMode", "duplicateMode", "deleteMode" }

(* C20: the mode in effect is fixed for the lifetime of a run.  In a step   *)
(* from a run to a run the current mode (the error handling applied to the  *)
(* keys and the floor-generation settings) and the run's mode id, runType   *)
(* and runTarget are unchanged, and they are those the run was created      *)
(* with; a step that changes the current mode leaves no run and no floor;   *)
(* creating, editing, duplicating or deleting a mode changes nothing of an  *)
(* existing run or of the typing state, unless it deletes the current mode  *)
(* and so discards the run.                                                 *)
C20_ModeFixedForRun ==
    [][ /\ (currentRun # Null /\ currentRun' # Null)
           => /\ currentMode' = currentMode
              /\ currentRun'.modeId = currentRun.modeId
              /\ currentRun'.runType = currentRun.runType
              /\ currentRun'.runTarget = currentRun.runTarget
              /\ currentRun'.startTime = currentRun.startTime
        /\ currentRun' # Null
           => /\ currentRun'.modeId = currentMode'.id
              /\ currentRun'.runType = currentMode'.settings.runType
              /\ currentRun'.runTarget = currentMode'.settings.runTarget
        /\ currentMode' # currentMode
           => (currentRun' = Null /\ currentFloor' = Null)
        /\ (lastEvent'.kind \in ModeEditKinds /\ currentRun' # Null)
           => /\ currentRun' = currentRun
              /\ currentFloor' = currentFloor
              /\ currentCharIndex' = currentCharIndex
              /\ typedCharacters' = typedCharacters
              /\ hasError' = hasError
              /\ firstErrorPosition' = firstErrorPosition
        /\ (lastEvent'.kind \in ModeEditKinds /\ currentRun # Null /\ currentRun' = Null)
           => /\ lastEvent'.kind = "deleteMode"
              /\ \A i \in 1..Len(customModes') : customModes'[i].id # currentMode.id
      ]_vars

\* the mode in use has been edited while its run is in progress: the stored
\* mode differs from the mode in effect
C20_Witness ==
    /\ lastEvent.kind = "updateMode"
    /\ currentRun # Null
    /\ currentRun.isActive
    /\ currentFloor # Null
    /\ currentFloor.correctCharacters > 0
    /\ \E i \in 1..Len(customModes) :
          /\ customModes[i].id = currentMode.id
          /\ customModes[i].settings # currentMode.settings

\* the mode of the given id as the mode lists hold it now
RECURSIVE ModeOfId(_, _)
ModeOfId(modes, id) ==
    IF modes = << >> THEN Null
    ELSE IF Head(modes).id = id THEN Head(modes) ELSE ModeOfId(Tail(modes), id)

(* C21: edits of a custom mode apply to the runs started afterwards.  A     *)
(* step that starts a run under a mode of the mode lists creates it with    *)
(* the settings that mode has in the lists at that moment: its runType and  *)
(* runTarget, and the error handling and floor generation the run's keys    *)
(* and floors are going to use.                                             *)
C21_EditsApplyToFutureRuns ==
    [][ (currentRun = Null /\ currentRun' # Null
            /\ ModeOfId(allModes, currentRun'.modeId) # Null)
        => LET stored == ModeOfId(allModes, currentRun'.modeId).settings
           IN  /\ currentRun'.runType = stored.runType
               /\ currentRun'.runTarget = stored.runTarget
               /\ currentMode'.settings.errorHandling = stored.errorHandling
               /\ currentMode'.settings.floorGeneration = stored.floorGeneration
      ]_vars

\* the custom modes other than the one of the given id, in their order
WithoutId(modes, id) ==
    LET Other(mode) == mode.id # id IN SelectSeq(modes, Other)

(* C22: deleting the custom mode that is the current mode, whatever the run *)
(* state (no run, an active run, a completed run), removes it from the      *)
(* custom modes and leaves the others, makes the first built-in mode the    *)
(* current mode and leaves no run, no floor, position 0, empty typed text   *)
(* and no error.                                                            *)
C22_DeleteCurrentModeResets ==
    [][ (lastEvent'.kind = "deleteMode"
            /\ ModeOfId(customModes, currentMode.id) # Null
            /\ ModeOfId(customModes', currentMode.id) = Null)
        => /\ customModes' = WithoutId(customModes, currentMode.id)
           /\ Len(customModes') = Len(customModes) - 1
           /\ currentMode' = DEFAULT_MODES[1]
           /\ currentRun' = Null
           /\ currentFloor' = Null
           /\ currentCharIndex' = 0
           /\ typedCharacters' = << >>
           /\ ~hasError'
           /\ firstErrorPosition' = NoPos
      ]_vars

\* the current mode has just been deleted, after keys had been typed
C22_Witness ==
    /\ lastEvent.kind = "deleteMode"
    /\ lastEvent.key # << >>
    /\ ModeOfId(customModes, lastEvent.key) = Null
    /\ scriptPos >= 3
    /\ currentMode = DEFAULT_MODES[1]
    /\ currentRun = Null

(* C23: mode names are unique ignoring case: no two modes of the built-in   *)
(* and custom modes together have names that are equal once lower-cased.    *)
C23_NamesUniqueIgnoringCase ==
    \A i, j \in 1..Len(allModes) :
        i # j => toLowerCase(allModes[i].name) # toLowerCase(allModes[j].name)


(* C24: loading the custom modes fails soft: when the stored value is not   *)
(* the JSON of a list of modes, the load leaves the custom modes empty and  *)
(* no render throws.                                                        *)
C24_LoadFailsSoft ==
    (lastEvent.kind \in { "loadCustomModes", "renderError" }
        /\ lastEvent.key \notin WellFormedTags)
    => (customModes = << >> /\ lastEvent.kind # "renderError")

(* C25: a random-words configuration whose length bounds match no          *)
(* dictionary word is rejected when the mode is created or edited: no      *)
(* stored mode is a random-words mode with an empty filtered dictionary.   *)
C25_EmptyDictionaryNeverStored ==
    \A i \in 1..Len(customModes) :
        customModes[i].settings.floorGeneration.type = FloorGenerationType.RANDOM_WORDS
        => FilteredWords(customModes[i].settings.floorGeneration) # << >>

\* text.split(' '): the pieces of the text between its spaces
RECURSIVE Pieces(_)
Pieces(text) ==
    IF \A i \in 1..Len(text) : text[i] # " " THEN << text >>
    ELSE LET k == CHOOSE i \in 1..Len(text) :
                     text[i] = " " /\ \A j \in 1..(i - 1) : text[j] # " "
         IN  << SubSeq(text, 1, k - 1) >> \o Pieces(SubSeq(text, k + 1, Len(text)))

\* a non-empty sequence of decimal digits
IsIntegerLiteral(token) ==
    /\ token # << >>
    /\ \A i \in 1..Len(token) : \E d \in 1..Len(Digits) : token[i] = Digits[d]

\* a word of the dictionary with a length in the bounds of the settings
IsDictionaryWord(token, settings) ==
    /\ \E w \in 1..Len(COMMON_WORDS) : COMMON_WORDS[w] = token
    /\ Len(token) >= settings.wordLength.min
    /\ Len(token) <= settings.wordLength.max

\* a dictionary word, or an integer literal if includeNumbers is set
IsWordOrNumber(token, settings) ==
    \/ IsDictionaryWord(token, settings)
    \/ settings.includeNumbers /\ IsIntegerLiteral(token)

\* a word or number, followed by one punctuation mark only if
\* includePunctuation is set
IsToken(token, settings) ==
    \/ IsWordOrNumber(token, settings)
    \/ /\ settings.includePunctuation
       /\ token # << >>
       /\ \E m \in 1..Len(punctuation) : token[Len(token)] = punctuation[m]
       /\ IsWordOrNumber(SubSeq(token, 1, Len(token) - 1), settings)

(* C26: a floor generated by a random-words mode with wordCount >= 1 and a  *)
(* non-empty filtered dictionary has a text of exactly wordCount tokens     *)
(* separated by single spaces; each token is a dictionary word with a       *)
(* length in [wordLength.min, wordLength.max], or an integer literal only   *)
(* if includeNumbers is set, followed by at most one punctuation mark only  *)
(* if includePunctuation is set.                                            *)
C26_RandomWordsTokens ==
    LET settings == currentMode.settings.floorGeneration IN
    (/\ currentFloor # Null
     /\ settings.type = FloorGenerationType.RANDOM_WORDS
     /\ settings.wordCount >= 1
     /\ \E w \in 1..Len(COMMON_WORDS) : IsDictionaryWord(COMMON_WORDS[w], settings))
    => LET tokens == Pieces(currentFloor.text)
       IN  /\ Len(tokens) = settings.wordCount
           /\ \A i \in 1..Len(tokens) : IsToken(tokens[i], settings)

\* a floor of a mode with both switches on, made of a number and of a word
\* followed by a punctuation mark
C26_Witness ==
    LET settings == currentMode.settings.floorGeneration IN
    /\ currentFloor # Null
    /\ settings.type = FloorGenerationType.RANDOM_WORDS
    /\ settings.includeNumbers /\ settings.includePunctuation
    /\ currentFloor.text = << "4", "2", " ", "a", "t", "!" >>

(* C27: whenever a floor becomes the current floor, at run start or on      *)
(* continuation after a floor completion, it has an empty typedText, zero   *)
(* correct and incorrect characters, accuracy 0, wpm 0, completed = false   *)
(* and no endTime, and the typing state is position 0, empty typed text, no *)
(* error and no firstErrorPosition.                                         *)
C27_FreshFloorAndTypingState ==
    [][ (/\ lastEvent'.kind = "key"
         /\ currentFloor' # Null
         /\ currentRun = Null \/ lastEvent'.floorComplete)
        => /\ currentFloor'.typedText = << >>
           /\ currentFloor'.correctCharacters = 0
           /\ currentFloor'.incorrectCharacters = 0
           /\ currentFloor'.accuracy = Zero
           /\ currentFloor'.wpm = Zero
           /\ ~currentFloor'.completed
           /\ currentFloor'.endTime = NoTime
           /\ currentCharIndex' = 0
           /\ typedCharacters' = << >>
           /\ ~hasError'
           /\ firstErrorPosition' = NoPos
      ]_vars

\* a run has continued with a fresh floor after a floor typed with mistakes
C27_Witness ==
    /\ lastEvent.kind = "key"
    /\ lastEvent.floorComplete
    /\ ~lastEvent.runComplete
    /\ currentFloor # Null
    /\ currentRun.floors[Len(currentRun.floors)].incorrectCharacters > 0
    /\ currentRun.floors[Len(currentRun.floors)].typedText # << >>
    /\ currentCharIndex = 0

(* C28: a run that starts has floorsCompleted = 0, the three character      *)
(* totals 0, both averages 0, no floors, isActive = true and the runType    *)
(* and runTarget of the current mode's settings, whatever run was discarded *)
(* or completed before; and discarding a run in progress persists nothing.  *)
C28_StartRunIsZeroed ==
    [][ /\ (currentRun = Null /\ currentRun' # Null)
           => /\ currentRun'.floorsCompleted = 0
              /\ currentRun'.totalCharacters = 0
              /\ currentRun'.totalCorrectCharacters = 0
              /\ currentRun'.totalIncorrectCharacters = 0
              /\ currentRun'.averageAccuracy = Zero
              /\ currentRun'.averageWPM = Zero
              /\ currentRun'.floors = << >>
              /\ currentRun'.isActive
              /\ currentRun'.runType = currentMode'.settings.runType
              /\ currentRun'.runTarget = currentMode'.settings.runTarget
        /\ (currentRun # Null /\ currentRun.isActive /\ currentRun' = Null)
           => saveRequests' = saveRequests
      ]_vars

\* a time-based run of a stored mode has just started, after a mode selection
C28_Witness ==
    /\ lastEvent.kind = "key"
    /\ currentRun # Null
    /\ currentRun.floors = << >>
    /\ currentRun.isActive
    /\ currentRun.modeId # DEFAULT_MODES[1].id
    /\ currentRun.runType = RunType.TIME_BASED
    /\ currentRun.startTime = now
    /\ now > 0
    /\ currentCharIndex = 0


(* C29: the floors of a run are append-only in completion order: a floor    *)
(* completion appends exactly one entry, the floor that was current with    *)
(* completed = true and an endTime, after the earlier entries, which stay   *)
(* as they were; no other step changes the floors of a run that goes on     *)
(* existing.                                                                *)
C29_FloorsAppendOnly ==
    [][ (currentRun # Null /\ currentRun' # Null)
        => IF lastEvent'.kind = "key" /\ lastEvent'.floorComplete
           THEN /\ currentFloor # Null
                /\ Len(currentRun'.floors) = Len(currentRun.floors) + 1
                /\ \A i \in 1..Len(currentRun.floors) :
                      currentRun'.floors[i] = currentRun.floors[i]
                /\ LET last == currentRun'.floors[Len(currentRun'.floors)]
                   IN  /\ last.text = currentFloor.text
                       /\ last.startTime = currentFloor.startTime
                       /\ last.completed
                       /\ last.endTime # NoTime
                       /\ last.endTime = now'
                /\ \A i \in 1..(Len(currentRun'.floors) - 1) :
                      currentRun'.floors[i].endTime <= currentRun'.floors[i + 1].endTime
           ELSE currentRun'.floors = currentRun.floors
      ]_vars

\* a second floor has just been appended after a different first floor
C29_Witness ==
    /\ lastEvent.kind = "key"
    /\ lastEvent.floorComplete
    /\ currentRun # Null
    /\ Len(currentRun.floors) = 2
    /\ currentRun.floors[1].text # currentRun.floors[2].text
    /\ currentRun.floors[1].completed
    /\ currentRun.floors[2].completed

(* C30: a successful save returns the record with the identifier assigned   *)
(* by the store: the id of the returned record is the id of the newly       *)
(* inserted row, also when the input record has an id field of its own.     *)
C30_ReturnedIdIsRowId ==
    response.status = 200
    => /\ typing_sessions # << >>
       /\ response.data.id = typing_sessions[Len(typing_sessions)].id

(* C34: every counted keystroke, the completing one included, is in the     *)
(* counts of the completed floor recorded in the run: in forgiving mode     *)
(* each recorded floor has correctCharacters equal to the length of its     *)
(* text, and the run's total of correct characters is the sum of these      *)
(* lengths.                                                                 *)
C34_CompletedFloorCountsEveryKey ==
    (currentRun # Null /\ IsForgiving)
    => /\ \A i \in 1..Len(currentRun.floors) :
             currentRun.floors[i].correctCharacters = Len(currentRun.floors[i].text)
       /\ currentRun.totalCorrectCharacters = currentRun.totalCharacters

(* C35: in perfectionist mode every floor recorded in the run has a         *)
(* typedText equal to its text.                                             *)
C35_RecordedTypedTextIsText ==
    (currentRun # Null /\ IsPerfectionist)
    => \A i \in 1..Len(currentRun.floors) :
          currentRun.floors[i].typedText = currentRun.floors[i].text

\* the sums of a field, and of the text lengths, over recorded floors
RECURSIVE SumCorrect(_)
SumCorrect(floors) ==
    IF floors = << >> THEN 0
    ELSE Head(floors).correctCharacters + SumCorrect(Tail(floors))

RECURSIVE SumIncorrect(_)
SumIncorrect(floors) ==
    IF floors = << >> THEN 0
    ELSE Head(floors).incorrectCharacters + SumIncorrect(Tail(floors))

RECURSIVE SumTextLength(_)
SumTextLength(floors) ==
    IF floors = << >> THEN 0
    ELSE Len(Head(floors).text) + SumTextLength(Tail(floors))

(* C36: in every reachable state the totals of a run are the sums over its  *)
(* recorded floors: totalCorrectCharacters and totalIncorrectCharacters of  *)
(* the floors' counts, totalCharacters of the lengths of their texts; the   *)
(* keystrokes of the floor in progress are not included.                    *)
C36_TotalsAreSumsOverFloors ==
    currentRun # Null
    => /\ currentRun.totalCorrectCharacters = SumCorrect(currentRun.floors)
       /\ currentRun.totalIncorrectCharacters = SumIncorrect(currentRun.floors)
       /\ currentRun.totalCharacters = SumTextLength(currentRun.floors)

\* a floor typed with mistakes is recorded and the floor in progress has
\* counted keystrokes of its own
C36_Witness ==
    /\ currentRun # Null
    /\ Len(currentRun.floors) >= 1
    /\ currentRun.totalIncorrectCharacters > 0
    /\ currentRun.totalCorrectCharacters > 0
    /\ currentFloor # Null
    /\ currentFloor.correctCharacters + currentFloor.incorrectCharacters > 0

\* the first n characters of a text
Prefix(text, n) == SubSeq(text, 1, n)

(* C37: in perfectionist mode, while a floor is current: the error flag is  *)
(* set iff firstErrorPosition is non-null; with no error the typed text is  *)
(* a proper prefix of the floor text; with an error at p the first p        *)
(* characters of the typed text are the first p characters of the floor     *)
(* text, p < length(typed text) and p < length(floor text); the position is *)
(* the length of the typed text.                                            *)
C37_PerfectionistStructure ==
    (IsPerfectionist /\ FloorIsCurrent)
    => /\ hasError <=> firstErrorPosition # NoPos
       /\ currentCharIndex = Len(typedCharacters)
       /\ ~hasError
          => /\ Len(typedCharacters) < Len(currentFloor.text)
             /\ typedCharacters = Prefix(currentFloor.text, Len(typedCharacters))
       /\ hasError
          => /\ firstErrorPosition >= 0
             /\ firstErrorPosition < Len(typedCharacters)
             /\ firstErrorPosition < Len(currentFloor.text)
             /\ Prefix(typedCharacters, firstErrorPosition)
                   = Prefix(currentFloor.text, firstErrorPosition)

\* an error is active after a correct character, with keys typed past it
C37_Witness ==
    /\ IsPerfectionist
    /\ FloorIsCurrent
    /\ hasError
    /\ firstErrorPosition = 1
    /\ Len(typedCharacters) = 3
    /\ lastEvent.kind = "key"

(* C38: in forgiving mode, while a floor is current, the position is at     *)
(* least 0 and at most length(text) - 1, the floor's correctCharacters is   *)
(* the position and firstErrorPosition is null; a key on a floor that stays *)
(* current never decreases the position.                                    *)
C38_ForgivingStructure ==
    [][ (IsForgiving' /\ currentRun' # Null /\ currentFloor' # Null)
        => /\ currentCharIndex' >= 0
           /\ currentCharIndex' <= Len(currentFloor'.text) - 1
           /\ currentFloor'.correctCharacters = currentCharIndex'
           /\ firstErrorPosition' = NoPos
           /\ (FloorIsCurrent /\ lastEvent'.kind = "key" /\ ~lastEvent'.floorComplete)
              => currentCharIndex' >= currentCharIndex
      ]_vars

\* a wrong key has been pressed in forgiving mode after a correct one
C38_Witness ==
    /\ IsForgiving
    /\ FloorIsCurrent
    /\ lastEvent.kind = "key"
    /\ hasError
    /\ currentCharIndex >= 1
    /\ currentFloor.incorrectCharacters >= 1

(* C39: the record of a completed run is frozen: no key event changes it,   *)
(* and a step changes it only by discarding it in a mode selection or the   *)
(* deletion of the current mode, or by replacing it with a new run.         *)
C39_CompletedRunFrozen ==
    [][ (currentRun # Null /\ ~currentRun.isActive)
        => /\ lastEvent'.kind = "key" => currentRun' = currentRun
           /\ \/ currentRun' = currentRun
              \/ /\ currentRun' = Null
                 /\ lastEvent'.kind \in { "useMode", "quickSwitch", "deleteMode" }
              \/ /\ currentRun' # Null
                 /\ currentRun'.isActive
                 /\ currentRun'.floors = << >>
      ]_vars

\* a key has been pressed on a completed run, after the clock has moved on
C39_Witness ==
    /\ currentRun # Null
    /\ ~currentRun.isActive
    /\ currentRun.endTime # NoTime
    /\ currentRun.endTime < now
    /\ lastEvent.kind = "key"
    /\ ~lastEvent.runComplete

(* C40: the key press that starts a run is consumed by the creation of the  *)
(* run: right after it floor 1 is current with position 0, empty typed      *)
(* text, no error and zero correct and incorrect counts, whether or not the *)
(* key is the first character of floor 1.                                   *)
C40_StartKeyIsConsumed ==
    [][ (currentRun = Null /\ lastEvent'.kind = "key")
        => /\ currentRun' # Null
           /\ currentRun'.floorsCompleted = 0
           /\ currentFloor' # Null
           /\ currentFloor'.correctCharacters = 0
           /\ currentFloor'.incorrectCharacters = 0
           /\ currentFloor'.typedText = << >>
           /\ currentCharIndex' = 0
           /\ typedCharacters' = << >>
           /\ ~hasError'
           /\ firstErrorPosition' = NoPos
           /\ ~lastEvent'.floorComplete
      ]_vars

\* a run has been started by the key that is the first character of floor 1
C40_Witness ==
    /\ lastEvent.kind = "key"
    /\ lastEvent.key \in PrintableKeys
    /\ currentRun # Null
    /\ currentRun.floors = << >>
    /\ currentFloor # Null
    /\ lastEvent.key = CharAt(currentFloor.text, 0)
    /\ currentCharIndex = 0
    /\ currentFloor.correctCharacters = 0
    /\ currentFloor.incorrectCharacters = 0
    /\ typedCharacters = << >>

(* C33: if the user keeps supplying the progress-making key, the current    *)
(* floor eventually completes, and a floor-count run with a target of at    *)
(* least 1 eventually is completed.                                         *)
C33_ProgressCompletes ==
    /\ \A n \in 0..MaxFloors :
          (scriptPos = 1 /\ FloorIsCurrent /\ currentRun.floorsCompleted = n)
             ~> (currentRun # Null /\ currentRun.floorsCompleted > n)
    /\ (/\ scriptPos = 1
        /\ currentRun # Null
        /\ currentRun.runType = RunType.FLOOR_COUNT
        /\ currentRun.runTarget >= 1)
          ~> (currentRun # Null /\ ~currentRun.isActive /\ currentFloor = Null)

\* a perfectionist run of two floors is completed by progress-making keys,
\* after mistakes on the way
C33_Witness ==
    /\ scriptPos = 1
    /\ IsPerfectionist
    /\ currentRun # Null
    /\ ~currentRun.isActive
    /\ currentRun.floorsCompleted = 2
    /\ currentRun.totalIncorrectCharacters > 0
    /\ lastEvent.runComplete

\* the component state with the displayed current time left out
WithoutCurrentTime(st) == [st EXCEPT !.typingStats.currentTime = 0]

\* C32: a firing of the display timer changes nothing but the current time of
\* the statistics: the sentence index, position, typed text, error flag,
\* mode, counts and requests in flight are the same after it, and every key
\* pressed next leaves the same state, but for the current time, as that key
\* pressed had the timer not fired.
C32_TimerOnlyRefreshesTime ==
    [][lastEvent'.kind = "sessionTimer" =>
          /\ WithoutCurrentTime(session') = WithoutCurrentTime(session)
          /\ session'.typingStats.currentTime = now
          /\ UNCHANGED << engine, now, saveRequests, store, modeEdits >>
          /\ \A key \in Keys :
                 WithoutCurrentTime(sessionKeyPress(session', key, now)) =
                     WithoutCurrentTime(sessionKeyPress(session, key, now))
      ]_vars

\* the timer has fired in the middle of a sentence, after keys were counted,
\* and has moved the displayed time
C32_Witness ==
    /\ lastEvent.kind = "sessionTimer"
    /\ session.typingStats.currentTime > session.typingStats.sessionStart
    /\ session.currentCharIndex > 0
    /\ session.typingStats.correctCharacters > 0
    /\ session.typingStats.incorrectCharacters > 0

\* the engine's part of the session-based App's state
SessionEngine(st) ==
    [currentSentenceIndex |-> st.currentSentenceIndex,
     currentCharIndex |-> st.currentCharIndex,
     hasError |-> st.hasError,
     currentMode |-> st.currentMode,
     typedCharacters |-> st.typedCharacters,
     typingStats |-> st.typingStats,
     sessionActive |-> st.sessionActive]

\* the line a failed request leaves in a console
FailureLine(event) ==
    IF event.kind = "saveSettles"
    THEN IF event.key = << "refused" >> THEN "Error saving session:"
         ELSE "Failed to save session:"
    ELSE IF event.key = << "refused" >> THEN "Error fetching sessions:"
         ELSE "Failed to load historical data:"

\* C31: when a request to the session store settles, answered or failed, the
\* sentence index, position, typed text, error flag, mode, statistics and
\* session flag of the session-based App and the run, floor, typing and mode
\* state of the run-based App are unchanged, so a failure leaves them as a
\* success does; a failed request leaves one line in a console, is not sent
\* again, starts no other request, and every key pressed next is handled as
\* it is without the failure.
C31_StoreFailureContained ==
    [][lastEvent'.kind \in { "saveSettles", "loadSettles" } =>
          /\ SessionEngine(session') = SessionEngine(session)
          /\ UNCHANGED << engine, now, saveRequests, modeEdits >>
          /\ lastEvent'.key # << "answered" >> =>
                 /\ session'.errors =
                        Append(session.errors, FailureLine(lastEvent'))
                 /\ Len(session'.posts) + session'.loads =
                        Len(session.posts) + session.loads - 1
                 /\ UNCHANGED typing_sessions
                 /\ \A key \in Keys :
                        SessionEngine(sessionKeyPress(session', key, now)) =
                            SessionEngine(sessionKeyPress(session, key, now))
      ]_vars

\* after the save of an ended session failed with the store unreachable, the
\* key c was pressed and taken as the first character of the first sentence
C31_Witness ==
    /\ lastEvent.kind = "sessionKey"
    /\ lastEvent.key = << "c" >>
    /\ \E i \in 1..Len(session.errors) :
           session.errors[i] = "Failed to save session:"
    /\ session.typingStats.sessionEnd # NoTime
    /\ session.currentMode.errorHandling = STRICT
    /\ session.currentSentenceIndex = 0
    /\ session.currentCharIndex = 1
    /\ ~session.hasError
    /\ Len(saveRequests) = 1
    /\ typing_sessions = << >>
====
